---- MODULE Spec2Model ----
(***************************************************************************)
(* Model of the enemy-placement analysis of the Wasteland-invaders terrain *)
(* generator (src/src/heightmapgenerator/enemy_placement_generator.rs) and *)
(* of its height query (src/src/heightmapgenerator/height_map_generator.rs),*)
(* with the mesh builder of height_map_renderer.rs that classifies water.  *)
(*                                                                         *)
(* f32 values are fixed-point integers in thousandths (1.0 = One = 1000),  *)
(* so every literal of the code (0.3, 8.0, 1.414, 0.25, ...) is exact;     *)
(* quotients, products and square roots are truncated to a thousandth and  *)
(* the rounding of f32 sums is not modelled.  f32::INFINITY is the         *)
(* sentinel INFINITY, which the arithmetic operators propagate as IEEE     *)
(* arithmetic does.  A grid Vec<Vec<T>> indexed [y][x] is a function on    *)
(* the cells <<x, y>>.                                                     *)
(***************************************************************************)
EXTENDS Integers, Sequences, FiniteSets, TLC

VARIABLES
    op,              \* the public entry point that was called
    width, height,   \* grid dimensions (arguments)
    river_mask,      \* argument river_mask: &[Vec<f32>]
    height_map,      \* argument height_map: &[Vec<f32>]
    river_config,    \* EnemyPlacementGenerator.river_config
    pc,              \* position in the pipeline
    water_mask,      \* RiverAnalysis.water_mask
    distance_field,  \* RiverAnalysis.distance_field
    queue,           \* the VecDeque of calculate_distance_field
    pops,            \* iterations of the while-let loop executed so far
    exclusion_mask,  \* RiverAnalysis.exclusion_mask
    slope_map,       \* TerrainAnalysis.slope_map
    building_flatness_map,
    tank_flatness_map,
    vehicle_flatness_map,
    zones,           \* the Vec<PlacementZone> returned
    hm_config,       \* the HeightmapConfig resource
    noise,           \* the HeightmapNoise bank of each run of the program
    hpc,             \* position in sample_height_with_river
    call,            \* the arguments and locals of the call in progress
    answers,         \* the first height returned per run and position
    vertices,        \* create_terrain_mesh_from_heightmap: vertices pushed
    water_areas,     \* create_terrain_mesh_from_heightmap: water areas pushed
    target,          \* the RiverMaskTarget resource
    render_state,    \* the RiverMaskRenderState resource
    gpu,             \* buffer mappings in flight and the readback channel
    capture_log,     \* copies, messages and files since the capture request
    materials,       \* Assets<CompleteGpuHeightmapMaterial>: debug_options
    world,           \* the terrain and mask entities that exist
    gpu_config,      \* the GpuHeightmapConfigUI resource and its change tick
    terrain_chunks,  \* the TerrainChunks resource
    events,          \* unread GenerateTerrainEvents and TerrainGeneratedEvents
    chunk_log,       \* how often each chunk coordinate was generated
    camera,          \* the Camera3d entity: transform, controllers, component
    saved,           \* the OriginalCameraTransform resource, when present
    flyby_events,    \* unread Start, Stop and Restore events
    frame,           \* the systems that ran this frame and queued commands
    flyby_log,       \* the transform before the first start, last completion
    scan             \* the cell popped and the directions still to scan, when
                     \* the loop of calculate_distance_field runs in any order

\* the variables of the placement analysis and of the height query
pvars == << op, width, height, river_mask, height_map, river_config, pc,
            water_mask, distance_field, queue, pops, exclusion_mask, slope_map,
            building_flatness_map, tank_flatness_map, vehicle_flatness_map,
            zones >>
hvars == << hm_config, noise, hpc, call, answers, vertices, water_areas >>

\* the variables of the river mask capture, of the terrain chunks and of the
\* fly-by camera
mvars == << target, render_state, gpu, capture_log, materials, world,
            gpu_config >>
tvars == << terrain_chunks, events, chunk_log >>
fvars == << camera, saved, flyby_events, frame, flyby_log >>
ovars == << scan >>

\* everything but the placement analysis, and everything but the height query
nonp == << hvars, mvars, tvars, fvars, ovars >>
nonh == << pvars, mvars, tvars, fvars, ovars >>

\* everything but the mask capture, the terrain chunks, the fly-by camera
nonm == << pvars, hvars, tvars, fvars, ovars >>
nont == << pvars, hvars, mvars, fvars, ovars >>
nonf == << pvars, hvars, mvars, tvars, ovars >>

vars == << pvars, hvars, mvars, tvars, fvars, ovars >>

-----------------------------------------------------------------------------
(* Bounds of the model *)

\* small grids (analyze_river_exclusion alone): dimensions 0..GridMax
GridMax == 3
\* small grids: at most this many cells of the river mask are non-zero
MaxWater == 2
\* the grid of the full pipeline (generate_enemy_placement_map)
BigW == 13
BigH == 28
\* the largest width and height of the small grids the whole pipeline is run on
TinyMax == 6
\* the number of distinct (run, position) pairs queried
MaxQueries == 2
\* vertices per edge of the mesh built
MeshDensity == 5

-----------------------------------------------------------------------------
(* f32 arithmetic in thousandths *)

One == 1000
INFINITY == 2000000000

Abs(i) == IF i < 0 THEN -i ELSE i
Min(a, b) == IF a <= b THEN a ELSE b

\* the f32 value NaN: unordered, every comparison with it is false
NaN == INFINITY + 100000000

IsInf(a) == a = INFINITY \/ a = -INFINITY
Sign(a) == IF a < 0 THEN -1 ELSE 1

\* a + b, a - b, a * b and a / b with the IEEE 754 results for the
\* infinities, NaN and a zero divisor
FAdd(a, b) ==
    IF a = NaN \/ b = NaN THEN NaN
    ELSE IF IsInf(a) THEN (IF b = -a THEN NaN ELSE a)
    ELSE IF IsInf(b) THEN b
    ELSE a + b

FSub(a, b) == IF b = NaN THEN NaN ELSE FAdd(a, -b)

FMul(a, b) ==
    IF a = NaN \/ b = NaN THEN NaN
    ELSE IF IsInf(a) \/ IsInf(b)
         THEN (IF a = 0 \/ b = 0 THEN NaN ELSE Sign(a) * Sign(b) * INFINITY)
    ELSE (a * b) \div One

FDiv(a, b) ==
    IF a = NaN \/ b = NaN THEN NaN
    ELSE IF IsInf(a) THEN (IF IsInf(b) THEN NaN ELSE Sign(a) * Sign(b) * INFINITY)
    ELSE IF IsInf(b) THEN 0
    ELSE IF b = 0 THEN (IF a = 0 THEN NaN ELSE Sign(a) * INFINITY)
    ELSE (a * One) \div b

\* a <= b on f32: false when either side is NaN
FLe(a, b) == a # NaN /\ b # NaN /\ a <= b

\* `f as usize` for f >= 0: truncation
AsUsize(f) == f \div One

RECURSIVE SqrtIter(_, _, _)
SqrtIter(n, lo, hi) ==
    IF lo >= hi THEN lo
    ELSE LET mid == (lo + hi + 1) \div 2
         IN IF mid * mid <= n THEN SqrtIter(n, mid, hi) ELSE SqrtIter(n, lo, mid - 1)
\* f32::sqrt of a value in millionths (a product of two thousandths), in thousandths
Sqrt(n) == SqrtIter(n, 0, 46340)

-----------------------------------------------------------------------------
(* Configuration *)

DefaultConfig ==
    [ river_threshold |-> 300, bank_margin |-> 8000,
      min_distance_from_river |-> 12000,
      building_radius |-> 4000, tank_radius |-> 3000, vehicle_radius |-> 2000,
      max_slope |-> 200, min_flat_area |-> 700,
      flatness_safety_margin |-> 1500 ]

\* river_config is a public field: a caller may tune it
TunedConfig ==
    [ river_threshold |-> 500, bank_margin |-> 2000,
      min_distance_from_river |-> 3000,
      building_radius |-> 3000, tank_radius |-> 2000, vehicle_radius |-> 1000,
      max_slope |-> 500, min_flat_area |-> 900,
      flatness_safety_margin |-> 1500 ]

Configs == { DefaultConfig, TunedConfig }

\* a configuration that asks for more flat area than a window can hold:
\* the tuned one with min_flat_area = 1.1
StrictConfig == [ TunedConfig EXCEPT !.min_flat_area = 1100 ]

\* a configuration that accepts level ground only: the tuned one with
\* max_slope = 0.0
ZeroSlopeConfig == [ TunedConfig EXCEPT !.max_slope = 0 ]

\* the configurations generate_enemy_placement_map is run under
GenerateConfigs == Configs \cup { StrictConfig, ZeroSlopeConfig }

-----------------------------------------------------------------------------
(* Grids *)

Cells(w, h) == (0 .. w - 1) \X (0 .. h - 1)
Grid == Cells(width, height)
\* fault: the bounds test leaves out the last column
InGridShort(x, y) == x >= 0 /\ x < width - 1 /\ y >= 0 /\ y < height
InGrid(x, y) == x >= 0 /\ x < width /\ y >= 0 /\ y < height

\* the cells in the order of `for y in 0..height { for x in 0..width {`
RowMajor(w, h) == [ i \in 1 .. w * h |-> << (i - 1) % w, (i - 1) \div w >> ]

-----------------------------------------------------------------------------
(* calculate_distance_field *)

\* fault: the diagonal directions are missing
directions_axis_only == << <<0, 1>>, <<1, 0>>, <<0, -1>>, <<-1, 0>> >>

directions ==
    << <<0, 1>>, <<1, 0>>, <<0, -1>>, <<-1, 0>>,
       <<1, 1>>, <<-1, -1>>, <<1, -1>>, <<-1, 1>> >>

DiagStep == 1414

\* fault: an axis-aligned step costs nothing
step_distance_free_axis(d) == IF Abs(d[1]) + Abs(d[2]) = 2 THEN DiagStep ELSE 0
step_distance(d) == IF Abs(d[1]) + Abs(d[2]) = 2 THEN DiagStep ELSE One

\* the body of `for &(dx, dy) in &directions` from the i-th direction on;
\* st = [d |-> distance_field, q |-> queue]
RECURSIVE RelaxNeighbours(_, _, _, _)
RelaxNeighbours(st, c, current_distance, i) ==
    IF i > Len(directions) THEN st
    ELSE LET nx == c[1] + directions[i][1]
             ny == c[2] + directions[i][2]
             new_distance == FAdd(current_distance, step_distance(directions[i]))
         IN IF InGrid(nx, ny) /\ new_distance < st.d[<<nx, ny>>]
            THEN RelaxNeighbours(
                     [ d |-> [st.d EXCEPT ![<<nx, ny>>] = new_distance],
                       q |-> Append(st.q, <<nx, ny>>) ],
                     c, current_distance, i + 1)
            ELSE RelaxNeighbours(st, c, current_distance, i + 1)

IsWater(v) == v >= river_config.river_threshold

\* fault: the loop reads the front of the queue without removing it
PeekFront(q) == q

\* queue.pop_front(): what is left of the queue
PopFront(q) == Tail(q)

\* the iteration counter, an observer of the loop: it saturates at a value
\* no run of the loop reaches
PopLimit == 4 * width * height + 1
CountPop(n) == IF n < PopLimit THEN n + 1 ELSE n

\* fault: the bank margin is compared with <=
ExcludedInclusive(w, d) == w \/ d <= river_config.bank_margin
Excluded(w, d) == w \/ d < river_config.bank_margin

\* analyze_river_exclusion up to the loop of calculate_distance_field:
\* the water mask, the field at +inf, the water cells seeded at 0 and queued
AnalyzeBegin ==
    /\ pc = "start"
    /\ UNCHANGED nonp
    /\ water_mask' = [ c \in Grid |-> IsWater(river_mask[c]) ]
    /\ distance_field' =
           [ c \in Grid |-> IF IsWater(river_mask[c]) THEN 0 ELSE INFINITY ]
    /\ queue' = SelectSeq(RowMajor(width, height),
                          LAMBDA c : IsWater(river_mask[c]))
    /\ pc' = "bfs"
    /\ UNCHANGED << op, width, height, river_mask, height_map, river_config,
                    pops, exclusion_mask, slope_map, building_flatness_map,
                    tank_flatness_map, vehicle_flatness_map, zones >>

\* one iteration of `while let Some((x, y)) = queue.pop_front()`
BfsStep ==
    /\ pc = "bfs"
    /\ UNCHANGED nonp
    /\ queue # << >>
    /\ LET c  == Head(queue)
           st == RelaxNeighbours([ d |-> distance_field, q |-> PopFront(queue) ],
                                 c, distance_field[c], 1)
       IN /\ distance_field' = st.d
          /\ queue' = st.q
    /\ pops' = CountPop(pops)
    /\ UNCHANGED << op, width, height, river_mask, height_map, river_config, pc,
                    water_mask, exclusion_mask, slope_map,
                    building_flatness_map, tank_flatness_map,
                    vehicle_flatness_map, zones >>

\* the queue is empty: calculate_distance_field returns, the exclusion mask
\* is filled and analyze_river_exclusion returns
AnalyzeFinish ==
    /\ pc = "bfs"
    /\ UNCHANGED nonp
    /\ queue = << >>
    /\ exclusion_mask' =
           [ c \in Grid |-> Excluded(water_mask[c], distance_field[c]) ]
    /\ pc' = IF op = "analyze" THEN "done" ELSE "slope"
    /\ UNCHANGED << op, width, height, river_mask, height_map, river_config,
                    water_mask, distance_field, queue, pops, slope_map,
                    building_flatness_map, tank_flatness_map,
                    vehicle_flatness_map, zones >>

-----------------------------------------------------------------------------
(* calculate_slope_map *)

\* `for i in a..b` (b exclusive)
RangeExcl(a, b) == a .. b - 1

\* the usize subtraction a - b goes below zero: a panic in a build with
\* overflow checks, a wrap to a - b + 2^64 in a build without
Underflows(a, b) == a < b

\* `for y in lo..height-lo { for x in lo..width-lo { .. [y][x] .. } }` panics.
\* With checks the subtractions that are evaluated must not underflow, and
\* width - lo is evaluated only inside a non-empty outer range.  Without
\* checks a wrapped bound makes its range reach past the grid, and the body
\* then indexes row or column lo of a grid that has fewer; a wrapped outer
\* range around an empty inner range runs no body and changes nothing
LoopPanics(lo, checks) ==
    IF Underflows(height, lo)
    THEN checks \/ Underflows(width, lo) \/ width - lo > lo
    ELSE height - lo > lo /\ Underflows(width, lo)

\* the cells of `for y in 1..height-1 { for x in 1..width-1 {`
SlopeInterior == RangeExcl(1, width - 1) \X RangeExcl(1, height - 1)

\* Sobel gradients and their magnitude at an interior cell
SobelGx(h, x, y) ==
    ( - h[<<x - 1, y - 1>>] + h[<<x + 1, y - 1>>]
      - 2 * h[<<x - 1, y>>] + 2 * h[<<x + 1, y>>]
      - h[<<x - 1, y + 1>>] + h[<<x + 1, y + 1>>] ) \div 8

SobelGy(h, x, y) ==
    ( - h[<<x - 1, y - 1>>] - 2 * h[<<x, y - 1>>] - h[<<x + 1, y - 1>>]
      + h[<<x - 1, y + 1>>] + 2 * h[<<x, y + 1>>] + h[<<x + 1, y + 1>>] ) \div 8

Magnitude(h, x, y) ==
    LET gx == SobelGx(h, x, y)
        gy == SobelGy(h, x, y)
    IN Sqrt(gx * gx + gy * gy)

\* element [k] (0-based) of the values of f on S sorted ascending:
\* slope_values.sort_by(partial_cmp) followed by slope_values[k]
SortedAt(f, S, k) ==
    CHOOSE v \in { f[c] : c \in S } :
        /\ Cardinality({ c \in S : f[c] < v }) <= k
        /\ k < Cardinality({ c \in S : f[c] <= v })

\* fault: the values are normalised by their maximum, the last element
P95IndexLast(n) == n - 1

\* (slope_values.len() as f32 * 0.95) as usize
P95Index(n) == (n * 95) \div 100

\* slope_values[(len * 0.95) as usize] is out of range: len = 0, when the
\* interior is empty.  (For width = 0 or height = 0 the bound width - 1 or
\* height - 1 underflows first; wrapped, the range holds no cell that exists
\* and the call ends in the same way.)
SlopePanics ==
    LET n == Cardinality(SlopeInterior)
    IN Underflows(height, 1) \/ Underflows(width, 1) \/ ~(P95Index(n) < n)

\* fault: the quotient is stored without .min(1.0)
NormalizeSlopeUnclamped(m, p95) == IF p95 = 0 THEN One ELSE FDiv(m, p95)

\* (m / p95).min(1.0): for p95 = 0 the quotient is NaN (m = 0) or +inf,
\* and f32::min returns 1.0 for both
NormalizeSlope(m, p95) == IF p95 = 0 THEN One ELSE Min(FDiv(m, p95), One)

calculate_slope_map(h) ==
    LET mag == [ c \in SlopeInterior |-> Magnitude(h, c[1], c[2]) ]
        p95 == SortedAt(mag, SlopeInterior,
                        P95Index(Cardinality(SlopeInterior)))
    IN [ c \in Grid |->
           IF c \in SlopeInterior THEN NormalizeSlope(mag[c], p95) ELSE 0 ]

-----------------------------------------------------------------------------
(* calculate_flatness_map *)

IsFlat(s) == s <= river_config.max_slope

\* (radius * flatness_safety_margin) as usize
FlatRadius(object_radius) ==
    AsUsize(FMul(object_radius, river_config.flatness_safety_margin))

\* fault: the loops run over the whole grid
FlatnessCellsWholeGrid(radius) == Grid

\* the cells of `for y in radius..height-radius { for x in radius..width-radius {`
FlatnessCells(radius) ==
    RangeExcl(radius, width - radius) \X RangeExcl(radius, height - radius)

\* the samples of the window around (x, y) that pass `nx < width && ny < height`
Window(x, y, radius) ==
    { n \in (x - radius .. x + radius) \X (y - radius .. y + radius) :
        InGrid(n[1], n[2]) }

\* fault: total_flatness is stored without the division by sample_count
FlatnessUnnormalised(slope, x, y, radius) ==
    Cardinality({ n \in Window(x, y, radius) : IsFlat(slope[n]) }) * One

\* total_flatness / sample_count as f32
Flatness(slope, x, y, radius) ==
    LET w == Window(x, y, radius)
    IN (Cardinality({ n \in w : IsFlat(slope[n]) }) * One) \div Cardinality(w)

calculate_flatness_map(slope, radius) ==
    [ c \in Grid |->
        IF c \in FlatnessCells(radius)
        THEN Flatness(slope, c[1], c[2], radius) ELSE 0 ]

-----------------------------------------------------------------------------
(* find_suitable_zones *)

\* the margin of `for y in 5..height-5 { for x in 5..width-5 {`
Margin == 5
\* the river distances a Building and a Tank zone must exceed
BuildingDistance == 20000
TankDistance == 15000
\* the divisor of river_score
RiverScoreRange == 20000
\* the weights of the score
RiverWeight == 250
SlopeWeight == 300
FlatnessWeight == 300
HeightWeight == 150

\* fault: the slope is not divided by max_slope
SlopeScorePlain(slope) == One - slope
SlopeScore(slope) == FSub(One, FDiv(slope, river_config.max_slope))

calculate_suitability_score(river_distance, slope, flatness, h) ==
    LET river_score ==
            FDiv(FSub(river_distance, river_config.min_distance_from_river),
                 RiverScoreRange)
        slope_score == SlopeScore(slope)
        flatness_score == flatness
        height_score == Min(h, One)
    IN FAdd(FAdd(FAdd(FMul(river_score, RiverWeight),
                      FMul(slope_score, SlopeWeight)),
                 FMul(flatness_score, FlatnessWeight)),
            FMul(height_score, HeightWeight))

\* fault: the loops run `for y in 4..height-4 { for x in 4..width-4 {`
ScanOrderNarrowMargin ==
    LET w == Cardinality(RangeExcl(Margin - 1, width - (Margin - 1)))
        h == Cardinality(RangeExcl(Margin - 1, height - (Margin - 1)))
    IN [ i \in 1 .. w * h |->
           << (Margin - 1) + ((i - 1) % w), (Margin - 1) + ((i - 1) \div w) >> ]

\* the cells scanned, in scan order
ScanOrder ==
    LET w == Cardinality(RangeExcl(Margin, width - Margin))
        h == Cardinality(RangeExcl(Margin, height - Margin))
    IN [ i \in 1 .. w * h |->
           << Margin + ((i - 1) % w), Margin + ((i - 1) \div w) >> ]

\* fault: the minimum river distance is not tested
SkippedIfExcluded(c) == exclusion_mask[c]

Skipped(c) ==
    \/ exclusion_mask[c]
    \/ distance_field[c] < river_config.min_distance_from_river

BuildingFits(c) ==
    /\ building_flatness_map[c] >= river_config.min_flat_area
    /\ slope_map[c] <= river_config.max_slope
    /\ distance_field[c] > BuildingDistance

TankFits(c) ==
    /\ tank_flatness_map[c] >= river_config.min_flat_area
    /\ slope_map[c] <= river_config.max_slope
    /\ distance_field[c] > TankDistance

VehicleFits(c) ==
    /\ vehicle_flatness_map[c] >= river_config.min_flat_area
    /\ slope_map[c] <= river_config.max_slope

Zone(c, t, flatness) ==
    [ position |-> c, zone_type |-> t,
      suitability_score |->
          calculate_suitability_score(distance_field[c], slope_map[c],
                                      flatness, height_map[c]) ]

\* fault: the Tank branch is tried before the Building branch
ClassifyTankFirst(c) ==
    IF Skipped(c) THEN << >>
    ELSE IF TankFits(c)
         THEN << Zone(c, "Tank", tank_flatness_map[c]) >>
    ELSE IF BuildingFits(c)
         THEN << Zone(c, "Building", building_flatness_map[c]) >>
    ELSE IF VehicleFits(c)
         THEN << Zone(c, "Vehicle", vehicle_flatness_map[c]) >>
    ELSE << >>

\* the body of the double loop for one cell: the zones it pushes
Classify(c) ==
    IF Skipped(c) THEN << >>
    ELSE IF BuildingFits(c)
         THEN << Zone(c, "Building", building_flatness_map[c]) >>
    ELSE IF TankFits(c)
         THEN << Zone(c, "Tank", tank_flatness_map[c]) >>
    ELSE IF VehicleFits(c)
         THEN << Zone(c, "Vehicle", vehicle_flatness_map[c]) >>
    ELSE << >>

\* fault: a spacing pass drops every second zone found
CollectSpaced(order) ==
    LET hits == SelectSeq(order, LAMBDA c : Classify(c) # << >>)
    IN [ i \in 1 .. (Len(hits) + 1) \div 2 |-> Classify(hits[2 * i - 1])[1] ]

\* the zones pushed by the double loop over the cells of order, in order
Collect(order) ==
    LET hits == SelectSeq(order, LAMBDA c : Classify(c) # << >>)
    IN [ i \in 1 .. Len(hits) |-> Classify(hits[i])[1] ]

\* fault: the comparison is a.partial_cmp(b), an ascending sort
StaysBeforeAscending(a, b) == a.suitability_score <= b.suitability_score

\* the comparator of zones.sort_by: b.score.partial_cmp(&a.score),
\* true when a, met before b, stays before b
StaysBefore(a, b) == a.suitability_score >= b.suitability_score

\* zones.sort_by(..), a stable sort: the place of zs[i] in the result is one
\* more than the number of elements that come before it
SortZones(zs) ==
    LET before(i) ==
            { j \in DOMAIN zs :
                \/ j < i /\ StaysBefore(zs[j], zs[i])
                \/ j > i /\ ~StaysBefore(zs[i], zs[j]) }
    IN [ k \in DOMAIN zs |->
           zs[CHOOSE i \in DOMAIN zs : Cardinality(before(i)) = k - 1] ]

\* zones.sort_by(|a, b| b.score.partial_cmp(&a.score).unwrap()) panics:
\* partial_cmp is None when a score is NaN, and a sort of two or more
\* elements compares every element at least once
SortPanics(zs) ==
    Len(zs) >= 2 /\ \E i \in DOMAIN zs : zs[i].suitability_score = NaN

find_suitable_zones == SortZones(Collect(ScanOrder))

-----------------------------------------------------------------------------
(* generate_enemy_placement_map after analyze_river_exclusion *)

SlopeMap ==
    /\ pc = "slope"
    /\ UNCHANGED nonp
    /\ IF SlopePanics
       THEN pc' = "panicked" /\ UNCHANGED slope_map
       ELSE slope_map' = calculate_slope_map(height_map) /\ pc' = "flatness"
    /\ UNCHANGED << op, width, height, river_mask, height_map, river_config,
                    water_mask, distance_field, queue, pops, exclusion_mask,
                    building_flatness_map, tank_flatness_map,
                    vehicle_flatness_map, zones >>

FlatnessMaps ==
    /\ pc = "flatness"
    /\ UNCHANGED nonp
    /\ \E checks \in BOOLEAN :
          IF \/ LoopPanics(FlatRadius(river_config.building_radius), checks)
             \/ LoopPanics(FlatRadius(river_config.tank_radius), checks)
             \/ LoopPanics(FlatRadius(river_config.vehicle_radius), checks)
          THEN /\ pc' = "panicked"
               /\ UNCHANGED << building_flatness_map, tank_flatness_map,
                               vehicle_flatness_map >>
          ELSE /\ building_flatness_map' =
                      calculate_flatness_map(slope_map,
                          FlatRadius(river_config.building_radius))
               /\ tank_flatness_map' =
                      calculate_flatness_map(slope_map,
                          FlatRadius(river_config.tank_radius))
               /\ vehicle_flatness_map' =
                      calculate_flatness_map(slope_map,
                          FlatRadius(river_config.vehicle_radius))
               /\ pc' = "zones"
    /\ UNCHANGED << op, width, height, river_mask, height_map, river_config,
                    water_mask, distance_field, queue, pops, exclusion_mask,
                    slope_map, zones >>

FindSuitableZones ==
    /\ pc = "zones"
    /\ UNCHANGED nonp
    /\ \E checks \in BOOLEAN :
          IF LoopPanics(Margin, checks)
          THEN pc' = "panicked" /\ UNCHANGED zones
          ELSE IF SortPanics(Collect(ScanOrder))
          THEN pc' = "panicked" /\ zones' = Collect(ScanOrder)
          ELSE zones' = find_suitable_zones /\ pc' = "done"
    /\ UNCHANGED << op, width, height, river_mask, height_map, river_config,
                    water_mask, distance_field, queue, pops, exclusion_mask,
                    slope_map, building_flatness_map, tank_flatness_map,
                    vehicle_flatness_map >>

-----------------------------------------------------------------------------
(* Inputs *)

\* a river mask: 1.0 on Strong, exactly the default threshold 0.3 on Faint
\* (water under the default configuration only), 0.0 elsewhere
Mask(w, h, Strong, Faint) ==
    [ c \in Cells(w, h) |->
        IF c \in Faint THEN DefaultConfig.river_threshold
        ELSE IF c \in Strong THEN One ELSE 0 ]

ZeroMap(w, h) == [ c \in Cells(w, h) |-> 0 ]

\* the water of the large grid: none, the row y = 0, the corner cell,
\* the column x = 0
BigWaters ==
    { {}, (0 .. BigW - 1) \X {0}, { <<0, 0>> }, {0} \X (0 .. BigH - 1) }

\* the terrain of the large grid: a plateau of height 1.6 on the rows
\* y <= 1 (a cliff between the rows 1 and 2) and, behind it, a slope that
\* rises by ry per row and rx per column; Flat is the level plain
Terrain(rx, ry) ==
    [ c \in Cells(BigW, BigH) |->
        rx * c[1] + (IF c[2] <= 1 THEN 1600 ELSE ry * (c[2] - 2)) ]

BigTerrains ==
    { ZeroMap(BigW, BigH), Terrain(0, 0), Terrain(0, 80), Terrain(64, 80) }

Unset == << >>

\* no height query is made
HeightUnused ==
    /\ hm_config = Unset
    /\ noise = Unset
    /\ hpc = "unused"
    /\ call = Unset
    /\ answers = Unset
    /\ vertices = Unset
    /\ water_areas = Unset

\* the mask capture is not part of these behaviours
MaskUnused ==
    /\ target = Unset
    /\ render_state = Unset
    /\ gpu = Unset
    /\ capture_log = Unset
    /\ materials = Unset
    /\ world = { }
    /\ gpu_config = Unset

\* the terrain chunks are not part of these behaviours
ChunksUnused ==
    /\ terrain_chunks = Unset
    /\ events = Unset
    /\ chunk_log = Unset

\* the fly-by camera is not part of these behaviours
FlybyUnused ==
    /\ camera = Unset
    /\ saved = Unset
    /\ flyby_events = Unset
    /\ frame = Unset
    /\ flyby_log = Unset

\* no cell is popped
NoScan == [ cell |-> << 0, 0 >>, current_distance |-> 0, remaining |-> { },
            deviated |-> FALSE ]

InitCommon ==
    /\ scan = NoScan
    /\ HeightUnused
    /\ MaskUnused
    /\ ChunksUnused
    /\ FlybyUnused
    /\ pc = "start"
    /\ water_mask = Unset
    /\ distance_field = Unset
    /\ queue = << >>
    /\ pops = 0
    /\ exclusion_mask = Unset
    /\ slope_map = Unset
    /\ building_flatness_map = Unset
    /\ tank_flatness_map = Unset
    /\ vehicle_flatness_map = Unset
    /\ zones = << >>

\* analyze_river_exclusion on every small grid and sparse river mask, the
\* marked cells all at 1.0 or all exactly at the default threshold
InitSmall ==
    /\ op = "analyze"
    /\ width \in 0 .. GridMax
    /\ height \in 0 .. GridMax
    /\ \E S \in SUBSET Cells(width, height) :
          /\ Cardinality(S) <= MaxWater
          /\ \E F \in { {}, S } : river_mask = Mask(width, height, S, F)
    /\ height_map = ZeroMap(width, height)
    /\ river_config \in Configs
    /\ InitCommon

\* generate_enemy_placement_map on the large grid, which is wide and high
\* enough for every loop range of the pipeline (height - 1, height - radius,
\* height - 5, ...) to be computed without underflow and for the slope
\* interior to be non-empty
InitBig ==
    /\ op = "generate"
    /\ width = BigW
    /\ height = BigH
    /\ \E S \in BigWaters : river_mask = Mask(width, height, S, {})
    /\ height_map \in BigTerrains
    /\ river_config \in GenerateConfigs
    /\ InitCommon

\* generate_enemy_placement_map on every grid of up to TinyMax x TinyMax
\* cells, the widths and heights 0, 1 and 2 included: level ground, no water
InitTiny ==
    /\ op = "generate"
    /\ width \in 0 .. TinyMax
    /\ height \in 0 .. TinyMax
    /\ river_mask = Mask(width, height, {}, {})
    /\ height_map = ZeroMap(width, height)
    /\ river_config \in Configs
    /\ InitCommon

Init == InitSmall \/ InitBig \/ InitTiny

Next ==
    \/ AnalyzeBegin
    \/ BfsStep
    \/ AnalyzeFinish
    \/ SlopeMap
    \/ FlatnessMaps
    \/ FindSuitableZones

Spec == Init /\ [][Next]_vars

\* analyze_river_exclusion called on its own.  The call is sequential code:
\* it keeps executing until it returns, which is weak fairness of its steps
NextAnalyze ==
    \/ AnalyzeBegin
    \/ BfsStep
    \/ AnalyzeFinish

AnalyzeSpec == InitSmall /\ [][NextAnalyze]_vars /\ WF_vars(NextAnalyze)

-----------------------------------------------------------------------------
(* height_map_generator.rs: arithmetic of the height query *)

\* std::f32::consts::PI and TAU
PI == 3142
TAU == 2 * PI

\* a * k for a literal of k millionths (0.0005, 0.0003)
FMulMicro(a, k) == IF a = NaN \/ IsInf(a) THEN FMul(a, k) ELSE (a * k) \div 1000000

\* f32::sin on [0, PI/2]: the Taylor polynomial of degree 7
SinQuarter(x) ==
    LET x2 == FMul(x, x)
        x3 == FMul(x2, x)
        x5 == FMul(x3, x2)
        x7 == FMul(x5, x2)
    IN x - x3 \div 6 + x5 \div 120 - x7 \div 5040

\* f32::sin and f32::cos: NaN for NaN and the infinities
Sin(x) ==
    IF x = NaN \/ IsInf(x) THEN NaN
    ELSE LET r == x % TAU
         IN IF r <= PI \div 2 THEN SinQuarter(r)
            ELSE IF r <= PI THEN SinQuarter(PI - r)
            ELSE IF r <= PI + PI \div 2 THEN - SinQuarter(r - PI)
            ELSE - SinQuarter(TAU - r)

Cos(x) == IF x = NaN \/ IsInf(x) THEN NaN ELSE Sin(x + PI \div 2)

\* f32::powi(b, 3) and f32::powf(b, 2.0)
Cube(b) == FMul(FMul(b, b), b)
Square(b) == FMul(b, b)

\* f32::powf(b, e) for 0 <= b <= 1 and 1 <= e <= 2: exact for e = 1.0 and
\* e = 2.0, interpolated between b and b * b for an exponent in between
Powf(b, e) == FAdd(FMul(b, 2 * One - e), FMul(Square(b), e - One))

\* f32::clamp(v, 0.0, 1.0)
Clamp01(v) == IF v = NaN THEN NaN ELSE IF v < 0 THEN 0 ELSE IF v > One THEN One ELSE v

-----------------------------------------------------------------------------
(* glam::Vec2 *)

VAdd(a, b) == << FAdd(a[1], b[1]), FAdd(a[2], b[2]) >>
VSub(a, b) == << FSub(a[1], b[1]), FSub(a[2], b[2]) >>
VScale(a, k) == << FMul(a[1], k), FMul(a[2], k) >>
Dot(a, b) == FAdd(FMul(a[1], b[1]), FMul(a[2], b[2]))

\* Vec2::length: the square root of the squared components, which are
\* thousandths times thousandths
Length(a) ==
    IF a[1] = NaN \/ a[2] = NaN THEN NaN
    ELSE IF IsInf(a[1]) \/ IsInf(a[2]) THEN INFINITY
    ELSE Sqrt(a[1] * a[1] + a[2] * a[2])

Distance(a, b) == Length(VSub(a, b))

\* Vec2::normalize: self * self.length_recip(), with no test of the length;
\* a zero vector gives 0.0 * (1.0 / 0.0) = NaN in both components
Normalize(a) == VScale(a, FDiv(One, Length(a)))

IsNaNVec(a) == a[1] = NaN \/ a[2] = NaN

-----------------------------------------------------------------------------
(* The noise bank *)

\* fault: the generators keep a count of the answers already given and mix
\* it into their values
HashCounting(g, p) ==
    ((((g + Cardinality(DOMAIN answers)) * 7 + p[1] * 3 + p[2] * 5) % 21) - 10)
        * 100

\* the value of a noise generator at a point away from its zeros: some value
\* of [-1, 1] fixed by the generator's seed and the point
Hash(g, p) == (((g * 7 + p[1] * 3 + p[2] * 5) % 21) - 10) * 100

\* Perlin::get: gradient noise, zero on the integer lattice
Perlin(g, p) ==
    IF IsNaNVec(p) THEN NaN
    ELSE IF p[1] % One = 0 /\ p[2] % One = 0 THEN 0
    ELSE Hash(g, p)

\* OpenSimplex::get and Fbm<OpenSimplex>::get (every octave samples a
\* multiple of the point): gradient noise, zero at the origin
Simplex(g, p) ==
    IF IsNaNVec(p) THEN NaN
    ELSE IF p = << 0, 0 >> THEN 0
    ELSE Hash(g, p)

\* a generator's seed is reduced to u32: seed + k wraps in a build without
\* overflow checks (the seeds of the model stay far below the limit)
HeightmapNoiseNew(seed) ==
    [ terrain_base          |-> seed,
      terrain_detail        |-> seed + 1,
      domain_warp_x         |-> seed + 2,
      domain_warp_y         |-> seed + 3,
      river_primary_meander |-> seed + 4,
      river_chaos_noise     |-> seed + 6,
      river_scale_noise     |-> seed + 7,
      river_width_noise     |-> seed + 9,
      flat_area_noise       |-> seed + 18,
      hill_noise            |-> seed + 20 ]

-----------------------------------------------------------------------------
(* HeightmapConfig *)

DefaultHeightmapConfig ==
    [ scale |-> 5, terrain_amplitude |-> 50000,
      river_width |-> 20000, river_depth |-> 8000,
      bank_slope_distance |-> 80000,
      meander_frequency |-> 8, meander_amplitude |-> 40000,
      meander_chaos |-> 600, meander_scale_variation |-> 400,
      domain_warp_strength |-> 25000,
      erosion_strength |-> 800, erosion_radius |-> 120000,
      valley_flattening |-> 700, erosion_smoothing |-> 600,
      flat_area_radius |-> 100000, flat_area_strength |-> 800,
      flat_area_frequency |-> 2,
      hill_steepness |-> 1200, terrain_roughness |-> 500,
      river_start |-> << -256000, 0 >>, river_direction |-> << 1000, 100 >> ]

\* every field is public and most are bound to sliders: a narrow, shallow
\* river through the origin along the x axis
SmallRiverConfig ==
    [ DefaultHeightmapConfig EXCEPT
        !.terrain_amplitude = 5000,
        !.river_width = 4000, !.river_depth = 2000,
        !.bank_slope_distance = 2000, !.erosion_radius = 3000,
        !.meander_amplitude = 2000,
        !.river_start = << 0, 0 >>, !.river_direction = << 1000, 0 >> ]

\* the same river without erosion, with a zero-length direction, and with
\* no bank and no erosion falloff
NoErosionConfig == [ SmallRiverConfig EXCEPT !.erosion_strength = 0 ]
ZeroDirectionConfig == [ SmallRiverConfig EXCEPT !.river_direction = << 0, 0 >> ]
NoBankConfig ==
    [ SmallRiverConfig EXCEPT !.bank_slope_distance = 0, !.erosion_radius = 0 ]

HeightConfigs ==
    { DefaultHeightmapConfig, SmallRiverConfig, NoErosionConfig,
      ZeroDirectionConfig, NoBankConfig }

-----------------------------------------------------------------------------
(* The river model *)

\* fault: the river bed is carved to half the depth
calculate_river_profile_half_bed(distance_to_river, river_width, config) ==
    LET water_edge == FMul(river_width, 500)
    IN IF FLe(distance_to_river, water_edge)
       THEN FMul(FSub(0, config.river_depth), 500)
       ELSE 0

calculate_river_profile(distance_to_river, river_width, config) ==
    LET water_edge == FMul(river_width, 500)
        bank_end == FAdd(water_edge, config.bank_slope_distance)
    IN IF FLe(distance_to_river, water_edge)
       THEN FSub(0, config.river_depth)
       ELSE IF FLe(distance_to_river, bank_end)
       THEN LET bank_progress ==
                    FDiv(FSub(distance_to_river, water_edge),
                         config.bank_slope_distance)
                smooth1 == FSub(One, Cube(bank_progress))
                smooth2 == Sin(FMul(FMul(FSub(One, bank_progress), PI), 500))
                smooth3 == FMul(FAdd(One, Cos(FMul(bank_progress, PI))), 500)
                combined_smooth ==
                    FAdd(FAdd(FMul(smooth1, 500), FMul(smooth2, 300)),
                         FMul(smooth3, 200))
            IN FMul(FSub(0, config.river_depth), combined_smooth)
       ELSE 0

calculate_erosion_factor(distance_to_river, river_width, config) ==
    LET water_edge == FMul(river_width, 500)
        erosion_end == FAdd(water_edge, config.erosion_radius)
    IN IF FLe(distance_to_river, water_edge)
       THEN config.erosion_strength
       ELSE IF FLe(distance_to_river, erosion_end)
       THEN LET erosion_progress ==
                    FDiv(FSub(distance_to_river, water_edge),
                         config.erosion_radius)
                falloff == Square(FSub(One, erosion_progress))
            IN FMul(config.erosion_strength, falloff)
       ELSE 0

calculate_realistic_meander(nz, distance_along_river, config) ==
    LET meander_phase == FMul(distance_along_river, config.meander_frequency)
        primary_meander == Sin(FMul(meander_phase, TAU))
        secondary_phase ==
            FMul(FMul(distance_along_river, config.meander_frequency), 1700)
        secondary_meander == FMul(Sin(FMul(secondary_phase, TAU)), 400)
        chaos_variation ==
            Simplex(nz.river_chaos_noise,
                    << FMul(distance_along_river, 1), 0 >>)
        scale_variation ==
            Perlin(nz.river_scale_noise,
                   << FMulMicro(distance_along_river, 300), 0 >>)
        scale_factor ==
            FAdd(One, FMul(scale_variation, config.meander_scale_variation))
        asymmetry ==
            Perlin(nz.river_primary_meander,
                   << FMul(meander_phase, 800), 1000 * One >>)
        base_meander ==
            FAdd(FMul(primary_meander, 700), FMul(secondary_meander, 300))
        chaotic_component ==
            FMul(FMul(chaos_variation, config.meander_chaos), 500)
        asymmetric_component == FMul(asymmetry, 200)
        total_meander ==
            FMul(FAdd(FAdd(base_meander, chaotic_component),
                      asymmetric_component),
                 scale_factor)
    IN FMul(total_meander, config.meander_amplitude)

\* the distance along the river of a position
DistanceAlongRiver(position, config) ==
    Dot(VSub(position, config.river_start), Normalize(config.river_direction))

\* the distance of a position to the meandered centreline
DistanceToRiver(nz, position, config) ==
    LET base_river_direction == Normalize(config.river_direction)
        distance_along_river == DistanceAlongRiver(position, config)
        meander_offset ==
            calculate_realistic_meander(nz, distance_along_river, config)
        perpendicular ==
            << FSub(0, base_river_direction[2]), base_river_direction[1] >>
        river_center ==
            VAdd(VAdd(config.river_start,
                      VScale(base_river_direction, distance_along_river)),
                 VScale(perpendicular, meander_offset))
    IN Distance(position, river_center)

\* the pair (river_carving, erosion_factor)
calculate_river_effects(nz, position, config) ==
    LET distance_to_river == DistanceToRiver(nz, position, config)
        width_noise ==
            Perlin(nz.river_width_noise,
                   << FMulMicro(DistanceAlongRiver(position, config), 500), 0 >>)
        actual_river_width ==
            FMul(config.river_width, FAdd(One, FMul(width_noise, 300)))
    IN << calculate_river_profile(distance_to_river, actual_river_width, config),
          calculate_erosion_factor(distance_to_river, actual_river_width, config) >>

-----------------------------------------------------------------------------
(* The terrain and its erosion *)

\* F(0) + F(1) + .. + F(n - 1)
RECURSIVE SumTo(_, _)
SumTo(F(_), n) == IF n = 0 THEN 0 ELSE FAdd(SumTo(F, n - 1), F(n - 1))

\* the angle (i / n) * TAU
Angle(i, n) == FMul(FDiv(i * One, n * One), TAU)

sample_terrain_height(nz, x, z, config) ==
    LET base ==
            Simplex(nz.terrain_base,
                    << FMul(x, config.scale), FMul(z, config.scale) >>)
        detail ==
            FMul(Simplex(nz.terrain_detail,
                         << FMul(x, 50), FMul(z, 50) >>),
                 100)
    IN FMul(FAdd(base, detail), config.terrain_amplitude)

calculate_flat_area_mask(nz, x, z, config) ==
    LET flat_center_value ==
            Perlin(nz.flat_area_noise,
                   << FMul(x, config.flat_area_frequency),
                      FMul(z, config.flat_area_frequency) >>)
        sample_value(i) ==
            Perlin(nz.flat_area_noise,
                   << FMul(FAdd(x, FMul(FMul(Cos(Angle(i, 8)),
                                             config.flat_area_radius), 500)),
                           config.flat_area_frequency),
                      FMul(FAdd(z, FMul(FMul(Sin(Angle(i, 8)),
                                             config.flat_area_radius), 500)),
                           config.flat_area_frequency) >>)
    IN IF flat_center_value > 600
       THEN LET avg_flatness == FDiv(SumTo(sample_value, 8), 8 * One)
                distance_factor ==
                    FSub(One, FDiv(FSub(flat_center_value, 600), 400))
                flat_strength ==
                    FMul(FMul(avg_flatness, distance_factor),
                         config.flat_area_strength)
            IN Clamp01(flat_strength)
       ELSE 0

sample_enhanced_terrain_height(nz, x, z, config) ==
    LET raw ==
            Simplex(nz.terrain_base,
                    << FMul(x, config.scale), FMul(z, config.scale) >>)
        base == Powf(Abs(raw), config.hill_steepness) * Sign(raw)
        hill_detail ==
            FMul(FMul(Simplex(nz.hill_noise,
                              << FMul(FMul(x, config.scale), 2 * One),
                                 FMul(FMul(z, config.scale), 2 * One) >>),
                      300),
                 config.terrain_roughness)
        detail ==
            FMul(FMul(Simplex(nz.terrain_detail,
                              << FMul(x, 50), FMul(z, 50) >>),
                      100),
                 config.terrain_roughness)
        flat_mask == calculate_flat_area_mask(nz, x, z, config)
        enhanced_terrain ==
            FMul(FAdd(FAdd(base, hill_detail), detail), config.terrain_amplitude)
    IN FAdd(FMul(enhanced_terrain, FSub(One, flat_mask)),
            FMul(FMul(enhanced_terrain, 300), flat_mask))

calculate_valley_floor_height(nz, position, config) ==
    LET valley_base ==
            Simplex(nz.terrain_base,
                    << FMul(FMul(position[1], config.scale), 300),
                       FMul(FMul(position[2], config.scale), 300) >>)
        river_slope == FMul(DistanceAlongRiver(position, config), 1)
    IN FAdd(FMul(FMul(valley_base, config.terrain_amplitude), 300), river_slope)

apply_terrain_smoothing(nz, h, position, erosion_factor, config) ==
    LET smoothing_strength == FMul(config.erosion_smoothing, erosion_factor)
        sample_radius == 2 * One
        sample_height(i) ==
            sample_terrain_height(nz,
                FAdd(position[1], FMul(Cos(Angle(i, 4)), sample_radius)),
                FAdd(position[2], FMul(Sin(Angle(i, 4)), sample_radius)),
                config)
        height_sum == FAdd(h, SumTo(sample_height, 4))
        averaged_height == FDiv(height_sum, 5 * One)
    IN FAdd(FMul(h, FSub(One, smoothing_strength)),
            FMul(averaged_height, smoothing_strength))

apply_erosion_effects(nz, base_height, position, erosion_factor, config) ==
    IF FLe(erosion_factor, 0) THEN base_height
    ELSE LET valley_target_height ==
                 calculate_valley_floor_height(nz, position, config)
             flattened_height ==
                 FAdd(FMul(base_height,
                           FSub(One, FMul(config.valley_flattening,
                                          erosion_factor))),
                      FMul(FMul(valley_target_height, config.valley_flattening),
                           erosion_factor))
         IN apply_terrain_smoothing(nz, flattened_height, position,
                                    erosion_factor, config)

\* the first statements of sample_height_with_river: the domain warp and the
\* base terrain height at the warped position
BaseTerrainHeight(nz, x, z, config) ==
    LET warp_x ==
            FMul(Perlin(nz.domain_warp_x,
                        << FMul(x, 3), FMul(z, 3) >>),
                 config.domain_warp_strength)
        warp_z ==
            FMul(Perlin(nz.domain_warp_y,
                        << FMul(x, 3), FMul(z, 3) >>),
                 config.domain_warp_strength)
    IN sample_enhanced_terrain_height(nz, FAdd(x, warp_x), FAdd(z, warp_z),
                                      config)

sample_height_with_river(nz, x, z, config) ==
    LET base_terrain_height == BaseTerrainHeight(nz, x, z, config)
        effects == calculate_river_effects(nz, << x, z >>, config)
        eroded_terrain_height ==
            apply_erosion_effects(nz, base_terrain_height, << x, z >>,
                                  effects[2], config)
    IN FAdd(eroded_terrain_height, effects[1])

-----------------------------------------------------------------------------
(* sample_height_with_river, called on the noise banks of two runs *)

\* the program is run twice; each run builds its bank from a seed of Seeds
Runs == { 1, 2 }
Seeds == { 42, 43 }

\* the positions queried, relative to river_start: the start itself and two
\* points across the river
QueryOffsets == { << 0, 0 >>, << 0, 3000 >>, << 0, 9000 >> }

\* what a noise generator does at a NaN coordinate is left to the noise
\* crate: it returns NaN or panics
NaNNoiseOutcomes == { "nan", "panic" }

NoCall ==
    [ run |-> 1, position |-> << 0, 0 >>, base |-> 0, carve |-> 0,
      erosion |-> 0, height |-> 0 ]

\* the call with the pair returned by calculate_river_effects
WithEffects(c, effects) ==
    [ c EXCEPT !.carve = effects[1], !.erosion = effects[2] ]

\* the placement operations are not part of these behaviours
PlacementUnused ==
    /\ op = "height"
    /\ pc = "unused"
    /\ width = 0
    /\ height = 0
    /\ river_config = DefaultConfig
    /\ river_mask = Unset
    /\ height_map = Unset
    /\ water_mask = Unset
    /\ distance_field = Unset
    /\ queue = << >>
    /\ pops = 0
    /\ exclusion_mask = Unset
    /\ slope_map = Unset
    /\ building_flatness_map = Unset
    /\ tank_flatness_map = Unset
    /\ vehicle_flatness_map = Unset
    /\ zones = << >>
    /\ scan = NoScan

\* setup_heightmap_generator inserts a configuration and a noise bank; every
\* run of the program builds its own bank
HeightInit ==
    /\ hm_config \in HeightConfigs
    /\ noise \in [ Runs -> { HeightmapNoiseNew(s) : s \in Seeds } ]
    /\ hpc = "idle"
    /\ call = NoCall
    /\ answers = << >>
    /\ vertices = << >>
    /\ water_areas = << >>
    /\ PlacementUnused
    /\ MaskUnused
    /\ ChunksUnused
    /\ FlybyUnused

\* a call of sample_height_with_river(x, z, config) up to the base terrain
\* height
SampleBegin ==
    /\ hpc \in { "idle", "returned" }
    /\ \E r \in Runs, o \in QueryOffsets :
          LET position == VAdd(hm_config.river_start, o)
          IN /\ \/ << r, position >> \in DOMAIN answers
                \/ Cardinality(DOMAIN answers) < MaxQueries
             /\ call' = [ NoCall EXCEPT
                            !.run = r, !.position = position,
                            !.base = BaseTerrainHeight(noise[r], position[1],
                                                       position[2], hm_config) ]
    /\ hpc' = "river"
    /\ UNCHANGED << hm_config, noise, answers, vertices, water_areas, nonh >>

\* calculate_river_effects.  With a NaN distance along the river the noise
\* generators are sampled at a NaN coordinate
RiverEffects ==
    /\ hpc = "river"
    /\ \E outcome \in NaNNoiseOutcomes :
          IF DistanceAlongRiver(call.position, hm_config) = NaN
             /\ outcome = "panic"
          THEN hpc' = "panicked" /\ UNCHANGED call
          ELSE /\ call' = WithEffects(call,
                              calculate_river_effects(noise[call.run],
                                                      call.position, hm_config))
               /\ hpc' = "erosion"
    /\ UNCHANGED << hm_config, noise, answers, vertices, water_areas, nonh >>

\* apply_erosion_effects and the sum returned; the first height returned for
\* a run and position is recorded, and whether it was asked for again
ErosionEffects ==
    /\ hpc = "erosion"
    /\ call' = [ call EXCEPT
                   !.height =
                       FAdd(apply_erosion_effects(noise[call.run], call.base,
                                                  call.position, call.erosion,
                                                  hm_config),
                            call.carve) ]
    /\ answers' =
           LET key == << call.run, call.position >>
           IN IF key \in DOMAIN answers
              THEN [ answers EXCEPT ![key].repeated = TRUE ]
              ELSE answers @@ (key :> [ height |-> call'.height,
                                      repeated |-> FALSE ])
    /\ hpc' = "returned"
    /\ UNCHANGED << hm_config, noise, vertices, water_areas, nonh >>

HeightNext ==
    \/ SampleBegin
    \/ RiverEffects
    \/ ErosionEffects

HeightSpec == HeightInit /\ [][HeightNext]_vars

-----------------------------------------------------------------------------
(* create_terrain_mesh_from_heightmap: the water areas of a mesh *)

\* the HeightmapRenderConfig of the model: a chunk of 10 x 10 around the origin
MeshRenderConfig == [ chunk_size |-> 10 * One, vertex_density |-> MeshDensity ]

\* the river through the origin with a depth just below 0.7, with the depth
\* 0.7 itself, and without depth
ShallowRiverConfig == [ SmallRiverConfig EXCEPT !.river_depth = 699 ]
EdgeRiverConfig == [ SmallRiverConfig EXCEPT !.river_depth = 700 ]
DryRiverConfig == [ SmallRiverConfig EXCEPT !.river_depth = 0 ]

MeshConfigs ==
    { SmallRiverConfig, ShallowRiverConfig, EdgeRiverConfig, DryRiverConfig,
      ZeroDirectionConfig }

\* the world coordinate of column or row i of the mesh
WorldCoord(i, render_config) ==
    FMul(FSub(FDiv(i * One, (render_config.vertex_density - 1) * One), 500),
         render_config.chunk_size)

\* the world position of the vertex pushed after n others: z is the outer
\* loop and x the inner one
VertexPosition(n, render_config) ==
    << WorldCoord(n % render_config.vertex_density, render_config),
       WorldCoord(n \div render_config.vertex_density, render_config) >>

\* fault: any carving at all counts as water
is_water_any_carve(river_mod) == FLe(river_mod, 0) /\ river_mod # 0

\* let is_water = river_mod < -0.7
is_water(river_mod) == FLe(river_mod, -700) /\ river_mod # -700

MeshInit ==
    /\ hm_config \in MeshConfigs
    /\ noise \in [ Runs -> { HeightmapNoiseNew(s) : s \in Seeds } ]
    /\ noise[1] = noise[2]
    /\ hpc = "mesh"
    /\ call = NoCall
    /\ answers = << >>
    /\ vertices = << >>
    /\ water_areas = << >>
    /\ PlacementUnused
    /\ MaskUnused
    /\ ChunksUnused
    /\ FlybyUnused

\* one iteration of the vertex loops: the river effects at the world
\* position, the vertex, and its water area when the point is water (the
\* terrain height of the vertex is read from the height grid and leaves the
\* classification alone)
MeshVertex ==
    /\ hpc = "mesh"
    /\ Len(vertices) < MeshRenderConfig.vertex_density
                           * MeshRenderConfig.vertex_density
    /\ LET position == VertexPosition(Len(vertices), MeshRenderConfig)
       IN \E outcome \in NaNNoiseOutcomes :
             IF DistanceAlongRiver(position, hm_config) = NaN
                /\ outcome = "panic"
             THEN hpc' = "panicked" /\ UNCHANGED << call, vertices, water_areas >>
             ELSE /\ call' = WithEffects([ NoCall EXCEPT !.position = position ],
                                 calculate_river_effects(noise[1], position,
                                                         hm_config))
                  /\ vertices' = Append(vertices, position)
                  /\ water_areas' =
                         IF is_water(call'.carve)
                         THEN Append(water_areas, position)
                         ELSE water_areas
                  /\ hpc' = "mesh"
    /\ UNCHANGED << hm_config, noise, answers, nonh >>

\* the loops are done and the mesh and its water areas are returned
MeshReturn ==
    /\ hpc = "mesh"
    /\ Len(vertices) = MeshRenderConfig.vertex_density
                           * MeshRenderConfig.vertex_density
    /\ hpc' = "meshed"
    /\ UNCHANGED << hm_config, noise, call, answers, vertices, water_areas, nonh >>

MeshNext ==
    \/ MeshVertex
    \/ MeshReturn

MeshSpec == MeshInit /\ [][MeshNext]_vars

-----------------------------------------------------------------------------
(* Properties of analyze_river_exclusion / calculate_distance_field *)

\* calculate_distance_field has just returned
FieldReturned == pc = "bfs" /\ queue = << >>
\* analyze_river_exclusion has returned
Analyzed == pc \in { "slope", "flatness", "zones", "done" }

SomeWater == \E c \in Grid : water_mask[c]

\* C1: after analyze_river_exclusion every water cell has distance exactly 0
\* and every other cell a distance strictly greater than 0
C1_WaterZeroLandPositive ==
    Analyzed =>
        \A c \in Grid :
            IF water_mask[c] THEN distance_field[c] = 0
            ELSE distance_field[c] > 0

C1_Witness ==
    /\ Analyzed
    /\ \E c \in Grid : water_mask[c]
    /\ \E c \in Grid : ~water_mask[c] /\ distance_field[c] < INFINITY

\* the 8-connected neighbours of a cell, and the cost of the step between two
Adjacent(c) ==
    { n \in (c[1] - 1 .. c[1] + 1) \X (c[2] - 1 .. c[2] + 1) :
        n \in Grid /\ n # c }
StepCost(a, b, axis, diag) == IF a[1] # b[1] /\ a[2] # b[2] THEN diag ELSE axis

MinOf(S) == CHOOSE m \in S : \A x \in S : m <= x

\* the cost of the cheapest in-grid path of at most k steps from a water
\* cell to each cell, for the step costs axis and diag, starting from d
RECURSIVE PathRounds(_, _, _, _)
PathRounds(d, axis, diag, k) ==
    LET via(c) == { d[n] + StepCost(n, c, axis, diag) :
                      n \in { m \in Adjacent(c) : d[m] < INFINITY } }
        e == [ c \in Grid |-> MinOf({ d[c] } \cup via(c)) ]
    IN IF k = 0 \/ e = d THEN d ELSE PathRounds(e, axis, diag, k - 1)

\* the cost of the cheapest path from a water cell, in units of 1/unit
PathDistance(axis, diag) ==
    PathRounds([ c \in Grid |-> IF water_mask[c] THEN 0 ELSE INFINITY ],
               axis, diag, Cardinality(Grid))

\* C2 as stated, with sqrt(2) per diagonal step.  1.4142 < sqrt(2) < 1.4143,
\* so the claimed distance lies between the cheapest-path costs for these two
\* diagonal costs (in ten-thousandths; distance_field is in thousandths)
C2_Sqrt2Diagonal ==
    FieldReturned =>
        LET lo == PathDistance(10 * One, 14142)
            hi == PathDistance(10 * One, 14143)
        IN \A c \in Grid :
              distance_field[c] < INFINITY =>
                  /\ lo[c] <= 10 * distance_field[c]
                  /\ 10 * distance_field[c] <= hi[c]

\* C2 (amended): when calculate_distance_field returns, distance_field[c] is
\* the minimum over all 8-connected in-grid paths from a water cell to c of
\* the summed step costs 1.0 (axis-aligned) and 1.414 (diagonal); no
\* neighbouring pair can still be relaxed, and every reached land cell has a
\* neighbour nearer to the water from which its distance derives
C2_ShortestPath ==
    FieldReturned =>
        /\ distance_field = PathDistance(One, DiagStep)
        /\ \A c \in Grid : \A n \in Adjacent(c) :
              distance_field[c] < INFINITY =>
                  distance_field[n]
                      <= distance_field[c] + StepCost(c, n, One, DiagStep)
        /\ \A c \in Grid :
              (~water_mask[c] /\ distance_field[c] < INFINITY) =>
                  \E n \in Adjacent(c) :
                      /\ distance_field[n] < distance_field[c]
                      /\ distance_field[c]
                             = distance_field[n] + StepCost(n, c, One, DiagStep)

\* a field in which some cell is reached by a path with a diagonal step and
\* some cell was improved after it was first reached
C2_Witness ==
    /\ FieldReturned
    /\ pops > Cardinality(Grid)
    /\ \E c \in Grid : distance_field[c] = DiagStep + One

\* C3: exclusion_mask[c] is true exactly when c is water or its distance is
\* strictly below bank_margin; every water cell is excluded
C3_ExclusionMask ==
    Analyzed =>
        \A c \in Grid :
            /\ exclusion_mask[c]
                   <=> (water_mask[c]
                           \/ distance_field[c] < river_config.bank_margin)
            /\ water_mask[c] => exclusion_mask[c]

\* a land cell exactly bank_margin away from the water, which is not excluded
C3_Witness ==
    /\ Analyzed
    /\ \E c \in Grid :
          /\ ~water_mask[c]
          /\ distance_field[c] = river_config.bank_margin
          /\ ~exclusion_mask[c]
    /\ \E c \in Grid : ~water_mask[c] /\ exclusion_mask[c]

\* C4: the propagation loop of calculate_distance_field terminates: whenever
\* the loop is running, the queue eventually becomes empty
C4_QueueDrains == [](pc = "bfs" => <>(pc = "bfs" /\ queue = << >>))

\* the loop has ended although cells were enqueued again after an improvement
C4_Witness ==
    /\ pc = "bfs"
    /\ queue = << >>
    /\ pops > Cardinality(Grid)

\* C5: with at least one water cell every cell ends with a finite distance;
\* with none every cell keeps +infinity and no cell is excluded
C5_InfinityOnlyWithoutWater ==
    Analyzed =>
        /\ SomeWater => \A c \in Grid : distance_field[c] < INFINITY
        /\ ~SomeWater =>
              \A c \in Grid :
                  distance_field[c] = INFINITY /\ ~exclusion_mask[c]

C5_Witness ==
    /\ Analyzed
    /\ ~SomeWater
    /\ Cardinality(Grid) > 1
    /\ \A c \in Grid : distance_field[c] = INFINITY /\ ~exclusion_mask[c]

-----------------------------------------------------------------------------
(* Properties of find_suitable_zones *)

\* generate_enemy_placement_map has returned its zone list
ZonesReturned == pc = "done" /\ op = "generate"

ZonesAt(c) == { i \in DOMAIN zones : zones[i].position = c }
ZoneTypes == { zones[i].zone_type : i \in DOMAIN zones }

\* the thresholds of each category, as find_suitable_zones tests them
MeetsBuilding(c) ==
    /\ building_flatness_map[c] >= river_config.min_flat_area
    /\ slope_map[c] <= river_config.max_slope
    /\ distance_field[c] > 20 * One
MeetsTank(c) ==
    /\ tank_flatness_map[c] >= river_config.min_flat_area
    /\ slope_map[c] <= river_config.max_slope
    /\ distance_field[c] > 15 * One
MeetsVehicle(c) ==
    /\ vehicle_flatness_map[c] >= river_config.min_flat_area
    /\ slope_map[c] <= river_config.max_slope

\* the flatness value of the zone's own type at its cell
OwnFlatness(z) ==
    CASE z.zone_type = "Building" -> building_flatness_map[z.position]
      [] z.zone_type = "Tank"     -> tank_flatness_map[z.position]
      [] z.zone_type = "Vehicle"  -> vehicle_flatness_map[z.position]

\* C6: the categories are tried in the order Building, Tank, Vehicle and the
\* first that fits is taken: a cell that meets the Building conditions is
\* emitted as Building, one that fails them but meets Tank as Tank, and no
\* cell is emitted twice
C6_PriorityOrder ==
    ZonesReturned =>
        /\ \A i \in DOMAIN zones :
              LET c == zones[i].position
                  t == zones[i].zone_type
              IN /\ MeetsBuilding(c) => t = "Building"
                 /\ (~MeetsBuilding(c) /\ MeetsTank(c)) => t = "Tank"
                 /\ t \in { "Building", "Tank", "Vehicle" }
        /\ \A c \in Grid : Cardinality(ZonesAt(c)) <= 1

\* a Building zone on a cell that meets all three categories and a Tank zone
\* on a cell that also meets Vehicle
C6_Witness ==
    /\ ZonesReturned
    /\ \E i \in DOMAIN zones :
          /\ zones[i].zone_type = "Building"
          /\ MeetsTank(zones[i].position)
          /\ MeetsVehicle(zones[i].position)
    /\ \E i \in DOMAIN zones :
          /\ zones[i].zone_type = "Tank"
          /\ ~MeetsBuilding(zones[i].position)
          /\ MeetsVehicle(zones[i].position)

\* C7: no zone lies on an excluded cell or nearer to the river than
\* min_distance_from_river; a Building zone is more than 20 from the river,
\* a Tank zone more than 15; every zone has slope <= max_slope and the
\* flatness of its own type >= min_flat_area
C7_ZoneThresholds ==
    ZonesReturned =>
        \A i \in DOMAIN zones :
            LET z == zones[i]
                c == z.position
            IN /\ ~exclusion_mask[c]
               /\ ~(distance_field[c] < river_config.min_distance_from_river)
               /\ z.zone_type = "Building" => distance_field[c] > 20 * One
               /\ z.zone_type = "Tank" => distance_field[c] > 15 * One
               /\ slope_map[c] <= river_config.max_slope
               /\ OwnFlatness(z) >= river_config.min_flat_area

\* zones of all three types, next to cells the two distance filters removed
C7_Witness ==
    /\ ZonesReturned
    /\ ZoneTypes = { "Building", "Tank", "Vehicle" }
    /\ \E c \in Grid :
          /\ ~exclusion_mask[c]
          /\ distance_field[c] < river_config.min_distance_from_river
          /\ MeetsVehicle(c)

\* C8: the returned list is ordered by suitability_score, non-increasing
C8_SortedDescending ==
    ZonesReturned =>
        \A i \in 1 .. Len(zones) - 1 :
            zones[i].suitability_score >= zones[i + 1].suitability_score

\* a list whose scan order was not already the score order
C8_Witness ==
    /\ ZonesReturned
    /\ Len(zones) >= 3
    /\ zones[1].suitability_score > zones[Len(zones)].suitability_score
    /\ zones[1].position[2] > zones[Len(zones)].position[2]

\* the cells find_suitable_zones scans
Scanned(c) ==
    /\ 5 <= c[1] /\ c[1] < width - 5
    /\ 5 <= c[2] /\ c[2] < height - 5

Qualifies(c) ==
    /\ Scanned(c)
    /\ ~exclusion_mask[c]
    /\ distance_field[c] >= river_config.min_distance_from_river
    /\ (MeetsBuilding(c) \/ MeetsTank(c) \/ MeetsVehicle(c))

\* C9: no deduplication or spacing filter: the list holds exactly one zone
\* for every scanned cell that passes the exclusion and minimum-distance
\* filter and meets a category, and none for any other cell
C9_OneZonePerQualifyingCell ==
    ZonesReturned =>
        \A c \in Grid :
            Cardinality(ZonesAt(c)) = IF Qualifies(c) THEN 1 ELSE 0

\* two horizontally and two vertically adjacent cells are both zones
C9_Witness ==
    /\ ZonesReturned
    /\ \E i, j, k \in DOMAIN zones :
          /\ zones[j].position = << zones[i].position[1] + 1, zones[i].position[2] >>
          /\ zones[k].position = << zones[i].position[1], zones[i].position[2] + 1 >>

\* the weighted sum of C10 for a zone, given its slope term
WeightedSum(z, slope_term) ==
    LET c == z.position
        d == distance_field[c]
        clamped_height == IF height_map[c] < One THEN height_map[c] ELSE One
    IN IF d = INFINITY THEN INFINITY
       ELSE ((((d - river_config.min_distance_from_river) * One) \div (20 * One))
                 * 250) \div One
            + (slope_term * 300) \div One
            + (OwnFlatness(z) * 300) \div One
            + (clamped_height * 150) \div One

\* C10 as stated: the slope term of the score is 1 - slope
C10_ScoreWithPlainSlope ==
    ZonesReturned =>
        \A i \in DOMAIN zones :
            zones[i].suitability_score
                = WeightedSum(zones[i], One - slope_map[zones[i].position])

\* C10 (amended): the score is 0.25 * (distance - min_distance_from_river)/20
\* + 0.30 * (1 - slope / max_slope) + 0.30 * flatness of the zone's own type
\* + 0.15 * min(height, 1.0)
C10_ScoreWithRelativeSlope ==
    ZonesReturned =>
        \A i \in DOMAIN zones :
            zones[i].suitability_score
                = WeightedSum(zones[i],
                      One - (slope_map[zones[i].position] * One)
                                \div river_config.max_slope)

\* a zone on sloping ground above height 1.0, and one below it
C10_Witness ==
    /\ ZonesReturned
    /\ \E i \in DOMAIN zones :
          /\ slope_map[zones[i].position] > 0
          /\ height_map[zones[i].position] > One
          /\ zones[i].suitability_score < INFINITY
    /\ \E i \in DOMAIN zones :
          /\ height_map[zones[i].position] > 0
          /\ height_map[zones[i].position] < One

-----------------------------------------------------------------------------
(* Properties of the whole of generate_enemy_placement_map *)

\* C11: every zone returned has a grid position (x, y) with
\* 5 <= x < width - 5 and 5 <= y < height - 5: no zone lies within 5 cells
\* of the grid border
C11_ZonesInsideMargin ==
    ZonesReturned =>
        \A i \in DOMAIN zones :
            /\ 5 <= zones[i].position[1]
            /\ zones[i].position[1] < width - 5
            /\ 5 <= zones[i].position[2]
            /\ zones[i].position[2] < height - 5

\* zones on the innermost allowed column and row on both sides
C11_Witness ==
    /\ ZonesReturned
    /\ \E i, j, k, l \in DOMAIN zones :
          /\ zones[i].position[1] = 5
          /\ zones[j].position[1] = width - 6
          /\ zones[k].position[2] = 5
          /\ zones[l].position[2] = height - 6

\* C12: under a configuration with min_flat_area > 1.0 (here 1.1) the zone
\* list returned is empty for every height grid and river mask, because no
\* flatness value reaches the threshold
C12_StrictFlatAreaNoZones ==
    ZonesReturned /\ river_config.min_flat_area > One =>
        /\ zones = << >>
        /\ \A c \in Grid :
              /\ building_flatness_map[c] < river_config.min_flat_area
              /\ tank_flatness_map[c] < river_config.min_flat_area
              /\ vehicle_flatness_map[c] < river_config.min_flat_area

\* min_flat_area = 1.1 and a scanned cell that passes every other test of
\* the Building branch with the largest flatness there is, 1.0
C12_Witness ==
    /\ ZonesReturned
    /\ river_config.min_flat_area > One
    /\ \E c \in Grid :
          /\ Scanned(c)
          /\ ~exclusion_mask[c]
          /\ distance_field[c] >= river_config.min_distance_from_river
          /\ distance_field[c] > 20 * One
          /\ slope_map[c] <= river_config.max_slope
          /\ building_flatness_map[c] = One

\* the height grid is fully flat: all its values are equal
FlatTerrain == \A c, d \in Grid : height_map[c] = height_map[d]

\* C13 as stated: for a fully flat height grid calculate_slope_map returns
\* a slope grid that is zero at every cell, and every scanned cell that is
\* not excluded and whose river distance is at least
\* min_distance_from_river and greater than 20 is emitted as a Building zone
C13_FlatTerrainAllBuilding ==
    ZonesReturned /\ FlatTerrain =>
        /\ \A c \in Grid : slope_map[c] = 0
        /\ \A c \in Grid :
              ( /\ Scanned(c)
                /\ ~exclusion_mask[c]
                /\ distance_field[c] >= river_config.min_distance_from_river
                /\ distance_field[c] > 20 * One )
              => \E i \in ZonesAt(c) : zones[i].zone_type = "Building"

\* calculate_slope_map / the three calls of calculate_flatness_map have
\* returned
SlopeReturned == pc \in { "flatness", "zones", "done" } /\ slope_map # Unset
FlatnessReturned == pc \in { "zones", "done" } /\ building_flatness_map # Unset

\* C14: every value of the slope map and of the building, tank and vehicle
\* flatness maps lies in the closed interval [0, 1]
C14_UnitInterval ==
    /\ SlopeReturned =>
           \A c \in Grid : 0 <= slope_map[c] /\ slope_map[c] <= One
    /\ FlatnessReturned =>
           \A c \in Grid :
               /\ 0 <= building_flatness_map[c] /\ building_flatness_map[c] <= One
               /\ 0 <= tank_flatness_map[c] /\ tank_flatness_map[c] <= One
               /\ 0 <= vehicle_flatness_map[c] /\ vehicle_flatness_map[c] <= One

\* a slope and flatness values of all three maps strictly inside the
\* interval, and a magnitude above the 95th percentile clamped to 1.0 next
\* to a smaller one at exactly 1.0
C14_Witness ==
    /\ FlatnessReturned
    /\ \E c \in Grid : 0 < slope_map[c] /\ slope_map[c] < One
    /\ \E c \in Grid : 0 < building_flatness_map[c] /\ building_flatness_map[c] < One
    /\ \E c \in Grid : 0 < tank_flatness_map[c] /\ tank_flatness_map[c] < One
    /\ \E c \in Grid : 0 < vehicle_flatness_map[c] /\ vehicle_flatness_map[c] < One
    /\ \E c, d \in SlopeInterior :
          /\ slope_map[c] = One
          /\ slope_map[d] = One
          /\ Magnitude(height_map, c[1], c[2]) > Magnitude(height_map, d[1], d[2])

\* C15 as stated: generate_enemy_placement_map never panics or indexes out of
\* range, whatever the grid dimensions
C15_NeverPanics == op = "generate" => pc # "panicked"

-----------------------------------------------------------------------------
(* Properties of the height query *)

\* a height was returned for the call in progress
HeightReturned == hpc = "returned"

\* C16: a configuration whose river_direction is the zero-length vector is
\* rejected before any height is produced: with such a configuration no call
\* of sample_height_with_river returns a height, and none fails part-way in
\* the noise generators
C16_ZeroDirectionRejected ==
    hm_config.river_direction = << 0, 0 >> => hpc \notin { "returned", "panicked" }

-----------------------------------------------------------------------------
(* Properties of the divisions *)

\* distances to the river around the water edge of NoBankConfig
EdgeDistances == { 0, 1000, 1999, 2000, 2001, 3000, NoBankConfig.river_width }

\* C17: no core computation yields NaN from a zero denominator: not the river
\* profile with bank_slope_distance = 0, not the erosion factor with
\* erosion_radius = 0, not a normalised slope when the 95th percentile is 0,
\* and not the suitability score of a zone when max_slope = 0
C17_NoNaNFromZeroDenominator ==
    /\ \A d \in EdgeDistances :
          /\ calculate_river_profile(d, NoBankConfig.river_width, NoBankConfig) # NaN
          /\ calculate_erosion_factor(d, NoBankConfig.river_width, NoBankConfig) # NaN
    /\ slope_map # Unset => \A c \in Grid : slope_map[c] # NaN
    /\ \A i \in DOMAIN zones : zones[i].suitability_score # NaN

-----------------------------------------------------------------------------
(* Properties of calculate_river_profile *)

\* the profile of the configuration at the distance of k tenths of the bank
\* beyond the water edge (k = 0 the water edge, k = 10 the bank end)
ProfileAt(k) ==
    calculate_river_profile(
        hm_config.river_width \div 2 + k * (hm_config.bank_slope_distance \div 10),
        hm_config.river_width, hm_config)

\* the bend of the sampled profile at step k: its second difference
Bend(k) == Abs(ProfileAt(k + 1) - 2 * ProfileAt(k) + ProfileAt(k - 1))

\* the profile is flat at -river_depth up to the water edge and at 0 beyond
\* the bank end
ProfilePieces ==
    /\ \A k \in -2 .. 0 : ProfileAt(k) = - hm_config.river_depth
    /\ \A k \in 11 .. 12 : ProfileAt(k) = 0
    /\ calculate_river_profile(
           hm_config.river_width \div 2 + hm_config.bank_slope_distance + 1,
           hm_config.river_width, hm_config) = 0

\* on the bank the profile stays in [-river_depth, 0], never falls, and
\* meets both flat pieces (to a hundredth of the depth)
ProfileBank ==
    /\ \A k \in 0 .. 10 :
          - hm_config.river_depth <= ProfileAt(k) /\ ProfileAt(k) <= 0
    /\ \A k \in -1 .. 10 : ProfileAt(k) <= ProfileAt(k + 1)
    /\ calculate_river_profile(hm_config.river_width \div 2 + 1,
                               hm_config.river_width, hm_config)
           <= - hm_config.river_depth + hm_config.river_depth \div 100
    /\ ProfileAt(10) >= - (hm_config.river_depth \div 100)

\* a boundary without a crease bends no more than the bank does inside
NoCreaseAt(k) == \E i \in 1 .. 9 : Bend(k) <= Bend(i)

\* C18: the carve profile is -river_depth up to the water edge, 0 beyond the
\* bank end, and in between a value of [-river_depth, 0] that never falls
\* with the distance, meets both neighbouring pieces continuously, and has
\* no crease at the water edge nor at the bank end
C18_CarveProfile ==
    hm_config.bank_slope_distance > 0 =>
        /\ ProfilePieces
        /\ ProfileBank
        /\ NoCreaseAt(0)
        /\ NoCreaseAt(10)

-----------------------------------------------------------------------------
(* Properties of sample_height_with_river *)

\* the call that returned asked for the height at the river start point
AtRiverStart == HeightReturned /\ call.position = hm_config.river_start

HeightOf(nz, position) ==
    sample_height_with_river(nz, position[1], position[2], hm_config)

-----------------------------------------------------------------------------
(* Properties of the water classification *)

\* C21: for every configuration with 0 <= river_depth < 0.7 no point of the
\* mesh is classified as water, whatever its distance to the river
C21_ShallowRiverNoWater ==
    (0 <= hm_config.river_depth /\ hm_config.river_depth < 700)
        => water_areas = << >>

\* a mesh over a river of a depth just below 0.7 was built whole, the point
\* classified last lying in the river bed
C21_Witness ==
    /\ hpc = "meshed"
    /\ hm_config.river_depth = 699
    /\ water_areas = << >>
    /\ \E i \in DOMAIN vertices :
          calculate_river_effects(noise[1], vertices[i], hm_config)[1] <= -699

-----------------------------------------------------------------------------
(* Properties of calculate_flatness_map *)

\* the fraction of the cells of the square of the radius around c, cut at
\* the grid border, whose slope is at most max_slope
FlatFraction(c, radius) == Flatness(slope_map, c[1], c[2], radius)

\* C22 as stated: every cell of the grid, the cells closer than the radius
\* to the border included, holds the fraction of the cells of its square
\* neighbourhood inside the grid whose slope is at most max_slope
C22_FlatnessIsFraction ==
    FlatnessReturned =>
        \A c \in Grid :
            /\ building_flatness_map[c]
                   = FlatFraction(c, FlatRadius(river_config.building_radius))
            /\ tank_flatness_map[c]
                   = FlatFraction(c, FlatRadius(river_config.tank_radius))
            /\ vehicle_flatness_map[c]
                   = FlatFraction(c, FlatRadius(river_config.vehicle_radius))

-----------------------------------------------------------------------------
(* Properties of calculate_slope_map *)

\* the Sobel gradient magnitude of an interior cell
CellMagnitude(c) == Magnitude(height_map, c[1], c[2])

\* p is the element at index floor(0.95 n) of the n interior magnitudes
\* sorted ascending: at most that many magnitudes lie below it, and more
\* than that many do not lie above it
IsPercentile95(p) ==
    LET k == (95 * Cardinality(SlopeInterior)) \div 100
    IN /\ \E c \in SlopeInterior : CellMagnitude(c) = p
       /\ Cardinality({ c \in SlopeInterior : CellMagnitude(c) < p }) <= k
       /\ Cardinality({ c \in SlopeInterior : CellMagnitude(c) <= p }) > k

\* C23: calculate_slope_map leaves every cell of the first and last row and
\* column at 0 and sets every interior cell to min(m / p95, 1), m the cell's
\* Sobel magnitude and p95 the element at index floor(0.95 n) of the n
\* interior magnitudes sorted ascending (1 when p95 is zero, where the
\* quotient is NaN or infinite)
C23_SlopeMapByPercentile ==
    SlopeReturned =>
        \E p \in { CellMagnitude(c) : c \in SlopeInterior } :
            /\ IsPercentile95(p)
            /\ \A c \in Grid :
                  slope_map[c] =
                      IF c[1] \in { 0, width - 1 } \/ c[2] \in { 0, height - 1 }
                      THEN 0
                      ELSE IF p = 0 \/ CellMagnitude(c) >= p THEN One
                      ELSE (CellMagnitude(c) * One) \div p

\* a slope map with a magnitude above the 95th percentile, cells strictly
\* between 0 and 1, and a border cell next to a sloping interior cell
C23_Witness ==
    /\ SlopeReturned
    /\ \E c \in SlopeInterior : 0 < slope_map[c] /\ slope_map[c] < One
    /\ \E c \in SlopeInterior : slope_map[c] > 0 /\ c[1] = 1 /\ slope_map[<< 0, c[2] >>] = 0
    /\ \E c, d \in SlopeInterior :
          /\ slope_map[c] = One
          /\ slope_map[d] = One
          /\ CellMagnitude(c) > CellMagnitude(d)

-----------------------------------------------------------------------------
(***************************************************************************)
(* River mask capture (heightmap_material/river_mask_capture.rs) and the   *)
(* material update of heightmap_material/gpu_heightmap_terrain.rs.  The    *)
(* capture request and the copy flag are read and written by the systems   *)
(* of the main world and of the render world as one shared resource each,  *)
(* as the comments of queue_river_mask_readback and of                     *)
(* poll_readback_and_save say.  A system is one atomic step.               *)
(***************************************************************************)

\* copies queued per behaviour, and the largest slider value of the rings
MaxCopies == 3
MaxRings == 2

\* GpuHeightmapRenderConfig::default()
GpuRenderConfigDefault == [ chunk_size |-> 512 * One, vertex_density |-> 257 ]

\* GpuHeightmapMaterial::default(): debug_options
DefaultDebugOptions == << 0, 0, 0, 0 >>

\* ext.debug_options = Vec4::new(0.0, dbg.y, 1.0, 0.0)
MaskDebugOptions(dbg) == << 0, dbg[2], One, 0 >>

\* the debug_options update_all_gpu_heightmap_materials writes
UpdatedDebugOptions(config, render_cfg) ==
    LET cell_size == render_cfg.chunk_size \div (render_cfg.vertex_density - 1)
        margin_step_world == cell_size * config.river_margin_rings
    IN  << IF config.show_water_mask THEN One ELSE 0, margin_step_world, 0, 0 >>

NoCaptures == [ copies |-> 0, sent |-> 0, saved |-> 0 ]

\* RiverMaskPlugin::build, GpuHeightmapConfigUI::default(); no terrain is
\* rendered yet
MaskInit ==
    /\ target = [ image |-> "default", request_capture |-> FALSE,
                  path |-> "none" ]
    /\ render_state = [ copy_submitted |-> FALSE, last_path |-> "none" ]
    /\ gpu = [ in_flight |-> 0, channel |-> << >> ]
    /\ capture_log = NoCaptures
    /\ materials = << >>
    /\ world = { }
    /\ gpu_config = [ show_water_mask |-> FALSE, river_margin_rings |-> 1,
                      changed |-> TRUE ]
    /\ PlacementUnused
    /\ HeightUnused
    /\ ChunksUnused
    /\ FlybyUnused

\* river_mask_ui with the button clicked
river_mask_ui ==
    /\ IF ~target.request_capture
         THEN /\ target' = [ target EXCEPT !.request_capture = TRUE,
                                           !.path = "river_mask.png" ]
              /\ capture_log' = NoCaptures
         ELSE UNCHANGED << target, capture_log >>
    /\ UNCHANGED << render_state, gpu, materials, world, gpu_config, nonm >>

\* render_gpu_terrain: clear_gpu_terrain despawns the terrain, setup_terrain
\* spawns one with a new default material
render_gpu_terrain ==
    /\ world' = world \cup { "terrain" }
    /\ materials' = [ k \in DOMAIN materials \cup { "terrain" } |->
                        IF k = "terrain" THEN DefaultDebugOptions
                                         ELSE materials[k] ]
    /\ UNCHANGED << target, render_state, gpu, capture_log, gpu_config, nonm >>

\* ensure_river_mask_setup: the image, the mask camera, and once the clone of
\* the terrain with the mask material
ensure_river_mask_setup ==
    LET clone == /\ "mask_terrain" \notin world
                 /\ "terrain" \in world
                 /\ "terrain" \in DOMAIN materials
    IN  /\ target' = IF target.image = "default"
                       THEN [ target EXCEPT !.image = "created" ]
                       ELSE target
        /\ materials' =
              IF clone
                THEN [ k \in DOMAIN materials \cup { "mask" } |->
                         IF k = "mask"
                           THEN MaskDebugOptions(materials["terrain"])
                           ELSE materials[k] ]
                ELSE materials
        /\ world' = world \cup { "mask_camera" }
                          \cup ( IF clone THEN { "mask_terrain" } ELSE { } )
        /\ UNCHANGED << render_state, gpu, capture_log, gpu_config, nonm >>

\* gpu_heightmap_ui_system: the checkbox and the slider of the rings
gpu_heightmap_ui_system ==
    /\ \E show \in BOOLEAN, rings \in 0 .. MaxRings :
          gpu_config' = [ show_water_mask |-> show,
                          river_margin_rings |-> rings, changed |-> TRUE ]
    /\ UNCHANGED << target, render_state, gpu, capture_log, materials, world,
                    nonm >>

\* update_all_gpu_heightmap_materials: every material of the asset store gets
\* the parameters of the configuration when the configuration changed
update_all_gpu_heightmap_materials ==
    /\ IF ~gpu_config.changed
         THEN UNCHANGED << materials, gpu_config >>
         ELSE /\ materials' =
                    [ k \in DOMAIN materials |->
                        UpdatedDebugOptions(gpu_config, GpuRenderConfigDefault) ]
              /\ gpu_config' = [ gpu_config EXCEPT !.changed = FALSE ]
    /\ UNCHANGED << target, render_state, gpu, capture_log, world, nonm >>

\* queue_river_mask_readback: the copy is submitted, the mapping registered
\* and the flag set when a capture is requested, none is submitted and the
\* image is on the GPU
queue_river_mask_readback ==
    /\ capture_log.copies < MaxCopies
    /\ \E uploaded \in IF target.image = "created" THEN BOOLEAN ELSE { FALSE } :
          IF ~target.request_capture \/ render_state.copy_submitted
                \/ ~uploaded
            THEN UNCHANGED << render_state, gpu, capture_log >>
            ELSE /\ gpu' = [ gpu EXCEPT !.in_flight = @ + 1 ]
                 /\ render_state' = [ copy_submitted |-> TRUE,
                                      last_path |-> target.path ]
                 /\ capture_log' = [ capture_log EXCEPT !.copies = @ + 1 ]
    /\ UNCHANGED << target, materials, world, gpu_config, nonm >>

\* the closure given to map_async: a message on success, nothing on error
map_async_callback ==
    /\ gpu.in_flight > 0
    /\ \E res \in { "ok", "err" } :
          IF res = "ok"
            THEN /\ gpu' = [ in_flight |-> gpu.in_flight - 1,
                             channel |-> Append(gpu.channel, target.path) ]
                 /\ capture_log' = [ capture_log EXCEPT !.sent = @ + 1 ]
            ELSE /\ gpu' = [ gpu EXCEPT !.in_flight = @ - 1 ]
                 /\ UNCHANGED capture_log
    /\ UNCHANGED << target, render_state, materials, world, gpu_config, nonm >>

\* poll_readback_and_save: every message of the channel is saved and resets
\* the flag
poll_readback_and_save ==
    /\ IF ~target.request_capture \/ gpu.channel = << >>
         THEN UNCHANGED << gpu, render_state, capture_log >>
         ELSE /\ gpu' = [ gpu EXCEPT !.channel = << >> ]
              /\ render_state' = [ render_state EXCEPT !.copy_submitted = FALSE ]
              /\ capture_log' =
                    [ capture_log EXCEPT !.saved = @ + Len(gpu.channel) ]
    /\ UNCHANGED << target, materials, world, gpu_config, nonm >>

MaskNext ==
    \/ river_mask_ui
    \/ render_gpu_terrain
    \/ ensure_river_mask_setup
    \/ gpu_heightmap_ui_system
    \/ update_all_gpu_heightmap_materials
    \/ queue_river_mask_readback
    \/ map_async_callback
    \/ poll_readback_and_save

MaskSpec == MaskInit /\ [][MaskNext]_vars

C25_MaskKeepsModeFlag ==
    "mask" \in DOMAIN materials => materials["mask"][3] = One

-----------------------------------------------------------------------------
(***************************************************************************)
(* Terrain chunks (terrain/systems.rs, terrain/resources.rs) with the      *)
(* "Regenerate River & Terrain" button of riverbank/systems.rs, the one    *)
(* place besides the start-up that writes a GenerateTerrainEvent.  A       *)
(* system is one atomic step; chunk_log records every creation of a chunk  *)
(* and every coordinate listed in a TerrainGeneratedEvent.                 *)
(***************************************************************************)

\* GenerateTerrainEvents written after the one of the start-up
MaxEvents == 2

\* TerrainPlugin: the TerrainConfig it inserts
TerrainConfigOf == [ chunk_size |-> 64 ]

\* generate_initial_terrain and the button: the region around the origin
InitialRegion == [ center_x |-> 0, center_z |-> 0, radius |-> 2 ]

\* the regions of the other events written in these behaviours
EventRegions ==
    { [ center_x |-> x, center_z |-> 0, radius |-> r ] :
        x \in { -1, 0, 130 * One }, r \in { 0, 1 } }

\* calculate_chunks_in_radius: rows of dz from -radius to radius, in each
\* row dx from -radius to radius
calculate_chunks_in_radius(center_x, center_z, radius, chunk_size) ==
    LET chunk_world_size == chunk_size * One
        center_chunk_x == center_x \div chunk_world_size
        center_chunk_z == center_z \div chunk_world_size
        side == 2 * radius + 1
    IN  [ i \in 1 .. side * side |->
            << center_chunk_x + ((i - 1) % side) - radius,
               center_chunk_z + ((i - 1) \div side) - radius >> ]

\* the coordinates of an event that handle_terrain_generation generates
\* when it skipped none
ChunksToGenerateUnchecked(coords, chunks) == coords

\* the coordinates of an event that handle_terrain_generation generates:
\* those for which chunks.contains_key is false
ChunksToGenerate(coords, chunks) ==
    SelectSeq(coords, LAMBDA c : c \notin DOMAIN chunks)

SeqRange(s) == { s[i] : i \in DOMAIN s }

IndexIn(s, e) == CHOOSE i \in DOMAIN s : s[i] = e

\* the body of the loop over the events of handle_terrain_generation for one
\* event: st holds chunks, the entities spawned so far, the
\* TerrainGeneratedEvents written and the log
HandleOneEvent(st, event) ==
    LET coords == calculate_chunks_in_radius(event.center_x, event.center_z,
                                             event.radius,
                                             TerrainConfigOf.chunk_size)
        generated_chunks == ChunksToGenerate(coords, st.chunks)
        entity(c) == st.next_entity + IndexIn(generated_chunks, c)
    IN  [ chunks |->
            [ c \in DOMAIN st.chunks \cup SeqRange(generated_chunks) |->
                IF c \in SeqRange(generated_chunks) THEN entity(c)
                                                    ELSE st.chunks[c] ],
          next_entity |-> st.next_entity + Len(generated_chunks),
          generated |-> IF generated_chunks # << >>
                          THEN Append(st.generated, generated_chunks)
                          ELSE st.generated,
          created |-> st.created \o
                        [ i \in DOMAIN generated_chunks |->
                            << generated_chunks[i],
                               entity(generated_chunks[i]) >> ],
          listed |-> st.listed \o generated_chunks ]

RECURSIVE HandleEvents(_, _)
HandleEvents(st, evs) ==
    IF evs = << >> THEN st
    ELSE HandleEvents(HandleOneEvent(st, Head(evs)), Tail(evs))

RECURSIVE Flatten(_)
Flatten(ss) == IF ss = << >> THEN << >> ELSE Head(ss) \o Flatten(Tail(ss))

\* after the start-up: setup_terrain_materials inserted an empty
\* TerrainChunks and generate_initial_terrain wrote its event
ChunkInit ==
    /\ terrain_chunks = [ chunks |-> << >>, loaded_chunks |-> << >> ]
    /\ events = [ generate |-> << InitialRegion >>, generated |-> << >> ]
    /\ chunk_log = [ created |-> << >>, listed |-> << >>, next_entity |-> 0,
                     written |-> 0, regenerations |-> 0 ]
    /\ PlacementUnused
    /\ HeightUnused
    /\ MaskUnused
    /\ FlybyUnused

\* a GenerateTerrainEvent written for some region
WriteGenerateTerrainEvent ==
    /\ chunk_log.written < MaxEvents
    /\ \E region \in EventRegions :
          events' = [ events EXCEPT !.generate = Append(@, region) ]
    /\ chunk_log' = [ chunk_log EXCEPT !.written = @ + 1 ]
    /\ UNCHANGED << terrain_chunks, nont >>

\* river_config_ui with "Regenerate River & Terrain" clicked: the chunk
\* entities are despawned, chunks is cleared and the event is written
river_config_ui ==
    /\ chunk_log.written < MaxEvents
    /\ terrain_chunks' = [ terrain_chunks EXCEPT !.chunks = << >> ]
    /\ events' = [ events EXCEPT !.generate = Append(@, InitialRegion) ]
    /\ chunk_log' = [ chunk_log EXCEPT !.written = @ + 1,
                                       !.regenerations = @ + 1 ]
    /\ UNCHANGED nont

\* handle_terrain_generation: every unread event
handle_terrain_generation ==
    LET st == HandleEvents([ chunks |-> terrain_chunks.chunks,
                             next_entity |-> chunk_log.next_entity,
                             generated |-> events.generated,
                             created |-> chunk_log.created,
                             listed |-> chunk_log.listed ],
                           events.generate)
    IN  /\ terrain_chunks' = [ terrain_chunks EXCEPT !.chunks = st.chunks ]
        /\ events' = [ generate |-> << >>, generated |-> st.generated ]
        /\ chunk_log' = [ chunk_log EXCEPT !.created = st.created,
                                           !.listed = st.listed,
                                           !.next_entity = st.next_entity ]
        /\ UNCHANGED nont

\* update_terrain_chunks: every coordinate of every unread
\* TerrainGeneratedEvent is pushed
update_terrain_chunks ==
    /\ terrain_chunks' = [ terrain_chunks EXCEPT
                             !.loaded_chunks = @ \o Flatten(events.generated) ]
    /\ events' = [ events EXCEPT !.generated = << >> ]
    /\ UNCHANGED << chunk_log, nont >>

ChunkNext ==
    \/ WriteGenerateTerrainEvent
    \/ river_config_ui
    \/ handle_terrain_generation
    \/ update_terrain_chunks

ChunkSpec == ChunkInit /\ [][ChunkNext]_vars

Occurrences(s, e) == Cardinality({ i \in DOMAIN s : s[i] = e })

CreatedCoords == [ i \in DOMAIN chunk_log.created |-> chunk_log.created[i][1] ]

\* the entity of the last creation of coordinate c
LastEntity(c) ==
    LET last == CHOOSE i \in DOMAIN chunk_log.created :
                    /\ chunk_log.created[i][1] = c
                    /\ \A j \in DOMAIN chunk_log.created :
                          chunk_log.created[j][1] = c => j <= i
    IN  chunk_log.created[last][2]

\* C26 as stated: each coordinate is generated at most once, chunks maps it
\* to the entity of that generation, the TerrainGeneratedEvents list exactly
\* the created coordinates, and loaded_chunks has no coordinate twice
C26_ChunksGeneratedOnce ==
    chunk_log # Unset =>
        /\ \A c \in SeqRange(CreatedCoords) : Occurrences(CreatedCoords, c) = 1
        /\ \A i \in DOMAIN chunk_log.created :
              /\ chunk_log.created[i][1] \in DOMAIN terrain_chunks.chunks
              /\ terrain_chunks.chunks[chunk_log.created[i][1]]
                    = chunk_log.created[i][2]
        /\ chunk_log.listed = CreatedCoords
        /\ \A c \in SeqRange(terrain_chunks.loaded_chunks) :
              Occurrences(terrain_chunks.loaded_chunks, c) = 1

\* C26 amended: between two clicks on "Regenerate River & Terrain" the events
\* generate each coordinate at most once; after k clicks a coordinate was
\* generated at most k + 1 times and is at most k + 1 times in loaded_chunks,
\* chunks maps a coordinate to the entity of its last generation, and the
\* TerrainGeneratedEvents list exactly the created coordinates, which
\* loaded_chunks receives in that order
C26_ChunksGeneratedOncePerRegeneration ==
    chunk_log # Unset =>
        /\ \A c \in SeqRange(CreatedCoords) :
              Occurrences(CreatedCoords, c) <= chunk_log.regenerations + 1
        /\ \A c \in DOMAIN terrain_chunks.chunks :
              /\ c \in SeqRange(CreatedCoords)
              /\ terrain_chunks.chunks[c] = LastEntity(c)
        /\ chunk_log.regenerations = 0 =>
              SeqRange(CreatedCoords) = DOMAIN terrain_chunks.chunks
        /\ chunk_log.listed = CreatedCoords
        /\ terrain_chunks.loaded_chunks \o Flatten(events.generated)
              = chunk_log.listed

\* overlapping events were handled without a click on the button, and their
\* coordinates reached loaded_chunks
C26_Witness ==
    /\ chunk_log # Unset
    /\ chunk_log.regenerations = 0
    /\ chunk_log.written = MaxEvents
    /\ events.generate = << >>
    /\ Len(terrain_chunks.loaded_chunks) > 25

-----------------------------------------------------------------------------
(***************************************************************************)
(* calculate_distance_field with its loop run in any order: any queued     *)
(* cell is popped and its eight neighbours are scanned in any order, one   *)
(* neighbour per step.  scan.deviated records that a pop or a scan left    *)
(* the order of the code.                                                  *)
(***************************************************************************)

\* the whole loop as the code runs it: pop_front, the directions in their
\* order, push_back
RECURSIVE RunFifo(_)
RunFifo(st) ==
    IF st.q = << >> THEN st.d
    ELSE RunFifo(RelaxNeighbours([ d |-> st.d, q |-> PopFront(st.q) ],
                                 Head(st.q), st.d[Head(st.q)], 1))

\* calculate_distance_field(water_mask, width, height)
calculate_distance_field(mask) ==
    RunFifo([ d |-> [ c \in Grid |-> IF mask[c] THEN 0 ELSE INFINITY ],
              q |-> SelectSeq(RowMajor(width, height), LAMBDA c : mask[c]) ])

\* fault: a neighbour is written only on its first visit
RelaxOneFirstVisit(st, c, current_distance, i) ==
    LET nx == c[1] + directions[i][1]
        ny == c[2] + directions[i][2]
        new_distance == FAdd(current_distance, step_distance(directions[i]))
    IN  IF InGrid(nx, ny) /\ st.d[<<nx, ny>>] = INFINITY
          THEN [ d |-> [ st.d EXCEPT ![<<nx, ny>>] = new_distance ],
                 q |-> Append(st.q, <<nx, ny>>) ]
          ELSE st

\* the body of `for &(dx, dy) in &directions` for the i-th direction
RelaxOne(st, c, current_distance, i) ==
    LET nx == c[1] + directions[i][1]
        ny == c[2] + directions[i][2]
        new_distance == FAdd(current_distance, step_distance(directions[i]))
    IN  IF InGrid(nx, ny) /\ new_distance < st.d[<<nx, ny>>]
          THEN [ d |-> [ st.d EXCEPT ![<<nx, ny>>] = new_distance ],
                 q |-> Append(st.q, <<nx, ny>>) ]
          ELSE st

RemoveAt(s, i) == SubSeq(s, 1, i - 1) \o SubSeq(s, i + 1, Len(s))

FirstOf(S) == CHOOSE m \in S : \A n \in S : m <= n

\* some queued cell is popped and its distance read
PopAnyOrder ==
    /\ pc = "bfs"
    /\ scan.remaining = { }
    /\ \E i \in DOMAIN queue :
          /\ scan' = [ cell |-> queue[i],
                       current_distance |-> distance_field[queue[i]],
                       remaining |-> DOMAIN directions,
                       deviated |-> scan.deviated \/ i # 1 ]
          /\ queue' = RemoveAt(queue, i)
    /\ pops' = CountPop(pops)
    /\ UNCHANGED << op, width, height, river_mask, height_map, river_config, pc,
                    water_mask, distance_field, exclusion_mask, slope_map,
                    building_flatness_map, tank_flatness_map,
                    vehicle_flatness_map, zones >>
    /\ UNCHANGED << hvars, mvars, tvars, fvars >>

\* some direction not yet scanned is scanned for the popped cell
ScanAnyOrder ==
    /\ pc = "bfs"
    /\ scan.remaining # { }
    /\ \E i \in scan.remaining :
          LET st == RelaxOne([ d |-> distance_field, q |-> queue ], scan.cell,
                             scan.current_distance, i)
          IN  /\ distance_field' = st.d
              /\ queue' = st.q
              /\ scan' = [ scan EXCEPT
                             !.remaining = @ \ { i },
                             !.deviated = @ \/ i # FirstOf(scan.remaining) ]
    /\ UNCHANGED << op, width, height, river_mask, height_map, river_config, pc,
                    water_mask, pops, exclusion_mask, slope_map,
                    building_flatness_map, tank_flatness_map,
                    vehicle_flatness_map, zones >>
    /\ UNCHANGED << hvars, mvars, tvars, fvars >>

\* the grids of the runs in any order
OrderGrids == { << 1, 1 >>, << 2, 2 >>, << 3, 1 >>, << 3, 2 >> }
OrderWater == 1

\* analyze_river_exclusion is called on a small grid
AnyOrderInit ==
    /\ op = "analyze"
    /\ \E g \in OrderGrids : width = g[1] /\ height = g[2]
    /\ \E S \in SUBSET Cells(width, height) :
          /\ Cardinality(S) <= OrderWater
          /\ river_mask = Mask(width, height, S, {})
    /\ height_map = ZeroMap(width, height)
    /\ river_config = DefaultConfig
    /\ InitCommon

AnyOrderNext ==
    \/ AnalyzeBegin
    \/ PopAnyOrder
    \/ ScanAnyOrder

AnyOrderSpec == AnyOrderInit /\ [][AnyOrderNext]_vars

AnyOrderDone == pc = "bfs" /\ queue = << >> /\ scan.remaining = { }

\* C27: whatever cell is popped and whatever direction is scanned next, when
\* the queue is empty every cell holds the distance the loop of the code
\* (front of the queue, directions in their order) computes for the mask
C27_OrderIndependent ==
    AnyOrderDone => distance_field = calculate_distance_field(water_mask)

\* a run that left the order of the code ended on a grid with land at a
\* finite distance that was improved on the way
C27_Witness ==
    /\ AnyOrderDone
    /\ scan.deviated
    /\ width = 3
    /\ height = 2
    /\ \E c \in Grid : distance_field[c] = 2 * One
    /\ pops > width * height

\* the distance of a cell to the nearest border of the grid, in cells
BorderDistance(c) ==
    Min(Min(c[1], width - 1 - c[1]), Min(c[2], height - 1 - c[2]))

\* the object radius and the flatness map of a zone type
TypeRadius(t) ==
    IF t = "Building" THEN river_config.building_radius
    ELSE IF t = "Tank" THEN river_config.tank_radius
    ELSE river_config.vehicle_radius

TypeFlatnessMap(t) ==
    IF t = "Building" THEN building_flatness_map
    ELSE IF t = "Tank" THEN tank_flatness_map
    ELSE vehicle_flatness_map

\* a scanned cell on the ring of the placement margin: x or y is 5 or
\* dimension - 6
OnMarginRing(c) ==
    \/ c[1] \in { 5, width - 6 }
    \/ c[2] \in { 5, height - 6 }

\* C28: a cell closer to the border than the flatness radius of a type has
\* flatness 0 for the type and, with min_flat_area > 0, is no zone of the
\* type; under the default configuration no Building zone lies on the ring
\* of cells with x or y equal to 5 or dimension - 6
C28_NoZoneInsideFlatRadius ==
    ZonesReturned =>
        /\ \A t \in { "Building", "Tank", "Vehicle" } :
              \A c \in Grid :
                  BorderDistance(c) < FlatRadius(TypeRadius(t)) =>
                      /\ TypeFlatnessMap(t)[c] = 0
                      /\ river_config.min_flat_area > 0 =>
                            \A i \in DOMAIN zones :
                                ~( zones[i].position = c
                                   /\ zones[i].zone_type = t )
        /\ river_config = DefaultConfig =>
              \A i \in DOMAIN zones :
                  zones[i].zone_type = "Building" =>
                      ~OnMarginRing(zones[i].position)

\* under the default configuration a cell of the ring is a Tank zone, another
\* a Vehicle zone, and a cell inside the ring is a Building zone
C28_Witness ==
    /\ ZonesReturned
    /\ river_config = DefaultConfig
    /\ \E i, j, k \in DOMAIN zones :
          /\ zones[i].zone_type = "Tank" /\ OnMarginRing(zones[i].position)
          /\ zones[j].zone_type = "Vehicle" /\ OnMarginRing(zones[j].position)
          /\ zones[k].zone_type = "Building"

-----------------------------------------------------------------------------
(***************************************************************************)
(* Fly-by camera (flyby/fly_by.rs) with the camera systems of main.rs.     *)
(* The systems of Update have no order among them: each runs once per      *)
(* frame, in any order, as one atomic step, and the commands they queue    *)
(* (resource and component insertions and removals) are applied when all   *)
(* of them ran.  An event is read by the handler in the frame it is sent   *)
(* or in the next one.  Transforms are named poses.  flyby_log records the *)
(* pose before the first start since the last restore, whether every       *)
(* restore found that pose saved, whether the last flight ended by itself, *)
(* and who wrote the controller flags last.                                *)
(***************************************************************************)

Systems ==
    { "flyby_ui_system", "camera_event_handler_system",
      "animate_river_raid_camera", "camera_controls", "toggle_camera_mode" }

\* poses the user gives the camera; setup_camera_and_light spawns it at the
\* first
UserTransforms == { "home", "moved" }

\* the pose at the first waypoint, and a pose on the path
FirstWaypoint == "first_waypoint"
OnPath == "on_path"

NoCommand == << >>
Command(kind, transform) == [ op |-> kind, transform |-> transform ]

\* setup_camera_and_light; FlyByPlugin::build
FlybyInit ==
    /\ camera = [ transform |-> "home", orbit_enabled |-> TRUE,
                  fly_enabled |-> FALSE, flying |-> FALSE ]
    /\ saved = "none"
    /\ flyby_events = [ start |-> 0, stop |-> 0, restore |-> 0 ]
    /\ frame = [ ran |-> { }, handler_commands |-> NoCommand,
                 animate_commands |-> NoCommand ]
    /\ flyby_log = [ origin |-> "none", restore_exact |-> TRUE,
                     completed |-> FALSE, last_writer |-> "setup" ]
    /\ PlacementUnused
    /\ HeightUnused
    /\ MaskUnused
    /\ ChunksUnused

Ran(system) == [ frame EXCEPT !.ran = @ \cup { system } ]

\* flyby_ui_system: at most one of the enabled buttons is clicked (the
\* terrain is rendered)
flyby_ui_system ==
    /\ "flyby_ui_system" \notin frame.ran
    /\ \E click \in { "none", "start", "stop", "restore" } :
          /\ click = "start" => ~camera.flying
          /\ click = "stop" => camera.flying
          /\ click = "restore" => saved # "none" /\ ~camera.flying
          /\ flyby_events' = IF click = "none" THEN flyby_events
                             ELSE [ flyby_events EXCEPT ![click] = @ + 1 ]
    /\ frame' = Ran("flyby_ui_system")
    /\ UNCHANGED << camera, saved, flyby_log, nonf >>

\* the body of `for _ in start_events.read()`; original is the resource the
\* system was given, st the camera, the commands queued and the log
HandleStart(st, original) ==
    [ camera |-> [ st.camera EXCEPT !.orbit_enabled = FALSE,
                                    !.fly_enabled = FALSE,
                                    !.transform = FirstWaypoint ],
      commands |->
          ( IF original = "none"
              THEN Append(st.commands,
                          Command("insert_resource", st.camera.transform))
              ELSE st.commands )
          \o << Command("insert_component", "none") >>,
      log |-> [ st.log EXCEPT
                  !.origin = IF @ = "none" THEN st.camera.transform ELSE @,
                  !.last_writer = "start" ] ]

\* the body of `for _ in stop_events.read()`
HandleStop(st) ==
    [ camera |-> [ st.camera EXCEPT !.orbit_enabled = TRUE,
                                    !.fly_enabled = FALSE ],
      commands |-> Append(st.commands, Command("remove_component", "none")),
      log |-> [ st.log EXCEPT !.completed = FALSE, !.last_writer = "stop" ] ]

\* the body of `for _ in restore_events.read()`; origin is the logged pose
\* when the system started
HandleRestore(st, original, origin) ==
    IF original = "none" THEN st
    ELSE [ camera |-> [ st.camera EXCEPT !.transform = original,
                                         !.orbit_enabled = TRUE,
                                         !.fly_enabled = FALSE ],
           commands |-> st.commands
                          \o << Command("remove_component", "none"),
                                Command("remove_resource", "none") >>,
           log |-> [ st.log EXCEPT
                       !.origin = "none",
                       !.restore_exact = @ /\ original = origin,
                       !.completed = FALSE,
                       !.last_writer = "restore" ] ]

RECURSIVE HandleStarts(_, _, _)
HandleStarts(st, original, n) ==
    IF n = 0 THEN st
    ELSE HandleStarts(HandleStart(st, original), original, n - 1)

RECURSIVE HandleStops(_, _)
HandleStops(st, n) ==
    IF n = 0 THEN st ELSE HandleStops(HandleStop(st), n - 1)

RECURSIVE HandleRestores(_, _, _, _)
HandleRestores(st, original, origin, n) ==
    IF n = 0 THEN st
    ELSE HandleRestores(HandleRestore(st, original, origin), original, origin,
                        n - 1)

\* camera_event_handler_system: the unread start events, then the stop
\* events, then the restore events
camera_event_handler_system ==
    /\ "camera_event_handler_system" \notin frame.ran
    /\ LET started == HandleStarts([ camera |-> camera,
                                     commands |-> frame.handler_commands,
                                     log |-> flyby_log ],
                                   saved, flyby_events.start)
           stopped == HandleStops(started, flyby_events.stop)
           st == HandleRestores(stopped, saved, flyby_log.origin,
                                flyby_events.restore)
       IN  /\ camera' = st.camera
           /\ flyby_log' = st.log
           /\ frame' = [ Ran("camera_event_handler_system") EXCEPT
                           !.handler_commands = st.commands ]
    /\ flyby_events' = [ start |-> 0, stop |-> 0, restore |-> 0 ]
    /\ UNCHANGED << saved, nonf >>

\* fault: the completed flight hands the camera back to the orbit controller
AnimateCompletedEnablesOrbit(cam) ==
    [ cam EXCEPT !.orbit_enabled = TRUE, !.fly_enabled = FALSE ]

\* animate_river_raid_camera at progress >= 1.0: what it does to the camera
\* before `continue`
AnimateCompleted(cam) == cam

\* animate_river_raid_camera: a camera with the component is moved along the
\* path, or its component is removed when the flight is complete
animate_river_raid_camera ==
    /\ "animate_river_raid_camera" \notin frame.ran
    /\ IF ~camera.flying
         THEN /\ frame' = Ran("animate_river_raid_camera")
              /\ UNCHANGED camera
         ELSE \E complete \in BOOLEAN :
                IF complete
                  THEN /\ camera' = AnimateCompleted(camera)
                       /\ frame' =
                            [ Ran("animate_river_raid_camera") EXCEPT
                                !.animate_commands =
                                    << Command("remove_component", "none") >> ]
                  ELSE /\ camera' = [ camera EXCEPT !.transform = OnPath ]
                       /\ frame' = Ran("animate_river_raid_camera")
    /\ UNCHANGED << saved, flyby_events, flyby_log, nonf >>

\* camera_controls: the keys move a camera without the component
camera_controls ==
    /\ "camera_controls" \notin frame.ran
    /\ \E pose \in UserTransforms \cup { "keep" } :
          camera' = IF camera.flying \/ pose = "keep" THEN camera
                    ELSE [ camera EXCEPT !.transform = pose ]
    /\ frame' = Ran("camera_controls")
    /\ UNCHANGED << saved, flyby_events, flyby_log, nonf >>

\* toggle_camera_mode: Tab switches the controllers of a camera without the
\* component
toggle_camera_mode ==
    /\ "toggle_camera_mode" \notin frame.ran
    /\ \E just_pressed \in BOOLEAN :
          IF just_pressed /\ ~camera.flying
            THEN /\ camera' =
                      IF camera.orbit_enabled
                        THEN [ camera EXCEPT !.orbit_enabled = FALSE,
                                             !.fly_enabled = TRUE ]
                        ELSE [ camera EXCEPT !.orbit_enabled = TRUE,
                                             !.fly_enabled = FALSE ]
                 /\ flyby_log' = [ flyby_log EXCEPT !.last_writer = "tab" ]
            ELSE UNCHANGED << camera, flyby_log >>
    /\ frame' = Ran("toggle_camera_mode")
    /\ UNCHANGED << saved, flyby_events, nonf >>

\* the queued commands applied in order to the component and the resource
RECURSIVE ApplyCommands(_, _)
ApplyCommands(w, commands) ==
    IF commands = << >> THEN w
    ELSE LET c == Head(commands)
         IN  ApplyCommands(
                 IF c.op = "insert_resource"
                   THEN [ w EXCEPT !.saved = c.transform ]
                 ELSE IF c.op = "remove_resource"
                   THEN [ w EXCEPT !.saved = "none" ]
                 ELSE IF c.op = "insert_component"
                   THEN [ w EXCEPT !.flying = TRUE ]
                 ELSE [ w EXCEPT !.flying = FALSE ],
                 Tail(commands))

\* the flight of this frame ended by itself: the animation removed the
\* component and the handler queued nothing
EndedByItself ==
    /\ frame.animate_commands # NoCommand
    /\ frame.handler_commands = NoCommand

\* the end of the frame: the command queues of the systems are applied, one
\* system after the other
ApplyDeferred ==
    /\ frame.ran = Systems
    /\ \E queue_order \in { frame.handler_commands \o frame.animate_commands,
                            frame.animate_commands \o frame.handler_commands } :
          LET w == ApplyCommands([ flying |-> camera.flying, saved |-> saved ],
                                 queue_order)
          IN  /\ camera' = [ camera EXCEPT !.flying = w.flying ]
              /\ saved' = w.saved
    /\ flyby_log' = [ flyby_log EXCEPT
                        !.completed = @ \/ EndedByItself ]
    /\ frame' = [ ran |-> { }, handler_commands |-> NoCommand,
                  animate_commands |-> NoCommand ]
    /\ UNCHANGED << flyby_events, nonf >>

FlybyNext ==
    \/ flyby_ui_system
    \/ camera_event_handler_system
    \/ animate_river_raid_camera
    \/ camera_controls
    \/ toggle_camera_mode
    \/ ApplyDeferred

FlybySpec == FlybyInit /\ [][FlybyNext]_vars

BetweenFrames == flyby_log # Unset /\ frame.ran = { }

\* C29: between frames the saved transform, when present, is the pose the
\* camera had before the first start since the last restore, and every
\* restore set the camera to that pose
C29_SavedIsPoseBeforeFirstStart ==
    BetweenFrames =>
        /\ saved # "none" => saved = flyby_log.origin
        /\ flyby_log.restore_exact

\* C30 as stated: after a flight that ended by itself both controllers are
\* disabled until a stop or restore event is handled
C30_DisabledUntilStopOrRestore ==
    (flyby_log # Unset /\ flyby_log.completed) =>
        ~camera.orbit_enabled /\ ~camera.fly_enabled

\* the step of animate_river_raid_camera that completes the flight
CompletionStep ==
    /\ frame.animate_commands = NoCommand
    /\ frame'.animate_commands # NoCommand

\* the end of a frame in which the flight ended by itself
CompletionApplied == EndedByItself /\ frame'.ran = { } /\ frame.ran = Systems

\* C30 amended: the completing step queues the removal of the component and
\* leaves the transform, the saved transform and the controller flags as
\* they are, and at the end of the frame only the component goes; afterwards
\* both controllers are disabled for as long as the start was the last to
\* write them, that is until a stop or restore event is handled or Tab is
\* pressed in toggle_camera_mode
C30_CompletionRemovesOnlyComponent ==
    /\ [][ /\ CompletionStep =>
                /\ camera' = camera
                /\ saved' = saved
                /\ frame'.animate_commands
                      = << Command("remove_component", "none") >>
           /\ CompletionApplied =>
                /\ camera' = [ camera EXCEPT !.flying = FALSE ]
                /\ saved' = saved ]_vars
    /\ []( (flyby_log # Unset /\ flyby_log.completed) =>
              /\ flyby_log.last_writer \in { "start", "tab" }
              /\ flyby_log.last_writer = "start" =>
                    ~camera.orbit_enabled /\ ~camera.fly_enabled )

\* a flight ended by itself: the component is gone, the transform is saved
\* and both controllers are disabled
C30_Witness ==
    /\ BetweenFrames
    /\ flyby_log.completed
    /\ ~camera.flying
    /\ saved # "none"
    /\ ~camera.orbit_enabled
    /\ ~camera.fly_enabled

====
